---- MODULE Spec2Model ----
(***************************************************************************)
(* A model of the dev-browser control server (serve() in the server        *)
(* module, src/unnamed/part_000 lines 71-681): startup validation, the     *)
(* named page registry behind the HTTP routes, the auth middleware and    *)
(* the lockdown allowlist matcher.                                         *)
(*                                                                         *)
(* Strings the code inspects character by character (headers, hostnames,   *)
(* allowlist entries) are sequences of one-character strings.  An optional *)
(* value (undefined or a value) is a sequence of length 0 or 1.            *)
(***************************************************************************)
EXTENDS Integers, Sequences, FiniteSets, TLC

VARIABLES
    opts,        \* the ServeOptions and environment serve() was called with
    phase,       \* where serve() is: unstarted, launching, fetching, routing,
                 \* listening, failed; then shuttingDown, stopped
    context,     \* the browser context: none, open, closed
    wsEndpoint,  \* let wsEndpoint (optional string)
    fetchI,      \* loop variable i of fetchWithRetry while it runs
    routeGate,   \* TRUE once context.route was installed
    pages,       \* state of every page the context was asked to create
    handlers,    \* page.on("close") observers: pairs <<page, name>>
    registry,    \* const registry: name -> [page, targetId]
    reqs,        \* the handlers suspended at an await
    last,        \* the most recent HTTP exchange (request and response)
    history,     \* history: per page, the name and answer of its registration
    cdpSessions, \* CDP sub-sessions opened by getTargetId and not detached
    client,      \* the headers of the client under test (auth specification)
    fnIn,        \* input of the pure function under check
    fnOut,       \* its result
    refs,        \* per page, the reference table in the page's script context
    jsHandles,   \* JSHandles obtained by evaluateHandle and not disposed
    popups,      \* the pages that were opened by a page (popups)
    proc         \* the process: its handlers, cleaningUp and where cleanup() is

vars == <<opts, phase, context, wsEndpoint, fetchI, routeGate, pages, handlers,
          registry, reqs, last, history, cdpSessions, client, fnIn, fnOut,
          refs, jsHandles, popups, proc>>

serveVars == <<opts, phase, context, wsEndpoint, fetchI, routeGate, proc>>
pageVars == <<pages, handlers, registry, reqs, last, history, cdpSessions>>
fnVars == <<client, fnIn, fnOut>>
actVars == <<refs, jsHandles, popups>>

----------------------------------------------------------------------------
(* Optional values and strings *)

None == <<>>
Some(v) == <<v>>
IsSome(o) == Len(o) = 1
Val(o) == o[1]
\* a ?? b
Coalesce(a, b) == IF IsSome(a) THEN a ELSE b

\* String.prototype.startsWith / endsWith / slice(from)
StartsWith(s, p) == Len(s) >= Len(p) /\ SubSeq(s, 1, Len(p)) = p
EndsWith(s, p) == Len(s) >= Len(p) /\ SubSeq(s, Len(s) - Len(p) + 1, Len(s)) = p
Slice(s, from) == SubSeq(s, from + 1, Len(s))

LowerChar(c) ==
    CASE c = "A" -> "a"
      [] c = "B" -> "b"
      [] c = "H" -> "h"
      [] c = "T" -> "t"
      [] c = "P" -> "p"
      [] c = "S" -> "s"
      [] OTHER -> c
\* String.prototype.toLowerCase
ToLowerCase(s) == [i \in 1..Len(s) |-> LowerChar(s[i])]

IsSpace(c) == c = " "
RECURSIVE TrimStart(_)
TrimStart(s) == IF s # <<>> /\ IsSpace(Head(s)) THEN TrimStart(Tail(s)) ELSE s
RECURSIVE TrimEnd(_)
TrimEnd(s) ==
    IF s # <<>> /\ IsSpace(s[Len(s)]) THEN TrimEnd(SubSeq(s, 1, Len(s) - 1)) ELSE s
\* String.prototype.trim
Trim(s) == TrimEnd(TrimStart(s))

\* Array.prototype.filter(Boolean) on an array of strings: drops ""
RECURSIVE FilterBoolean(_)
FilterBoolean(a) ==
    IF a = <<>> THEN <<>>
    ELSE IF Head(a) = <<>> THEN FilterBoolean(Tail(a))
    ELSE <<Head(a)>> \o FilterBoolean(Tail(a))

\* String.prototype.split(","), always at least one piece
RECURSIVE SplitFrom(_, _, _)
SplitFrom(s, sep, cur) ==
    IF s = <<>> THEN <<cur>>
    ELSE IF Head(s) = sep THEN <<cur>> \o SplitFrom(Tail(s), sep, <<>>)
    ELSE SplitFrom(Tail(s), sep, Append(cur, Head(s)))
Split(s, sep) == SplitFrom(s, sep, <<>>)

MapTrim(a) == [i \in 1..Len(a) |-> Trim(a[i])]

----------------------------------------------------------------------------
(* Literals *)

LOCALHOST == <<"l","o","c","a","l","h","o","s","t">>
IP4_LOOPBACK == <<"1","2","7",".","0",".","0",".","1">>
IP6_LOOPBACK == <<":",":","1">>
IP4_LOOPBACK_OTHER == <<"1","2","7",".","0",".","0",".","2">>
IP4_ANY == <<"0",".","0",".","0",".","0">>
NAME_127 == <<"1","2","7",".","a">>
TOKEN == <<"s","1">>
WRONG_TOKEN == <<"s","2">>
HOST_A == <<"a",".","b">>
WILD_B == <<"*",".","b">>
CDP_URL == "ws://cdp"

\* net.isIP for the host strings the model uses
isIP(h) ==
    CASE h \in {IP4_LOOPBACK, IP4_LOOPBACK_OTHER, IP4_ANY} -> 4
      [] h = IP6_LOOPBACK -> 6
      [] OTHER -> 0

----------------------------------------------------------------------------
(* serve(): option defaults *)

Truthy(o) == IsSome(o) /\ Val(o) # <<>>

port == Val(Coalesce(opts.port, Some(9222)))
host == Val(Coalesce(opts.host, Some(IP4_LOOPBACK)))
cdpPort == Val(Coalesce(opts.cdpPort, Some(9223)))
cdpHost == Val(Coalesce(opts.cdpHost, Some(IP4_LOOPBACK)))
allowRemote == Val(Coalesce(opts.allowRemote, Some(FALSE)))
lockdown == Val(Coalesce(opts.lockdown, Some(opts.envLockdown)))

DefaultAllowedHosts == <<LOCALHOST, IP4_LOOPBACK, IP6_LOOPBACK>>

allowedHostsRaw ==
    IF IsSome(opts.allowedHosts) THEN Val(opts.allowedHosts)
    ELSE IF Truthy(opts.envAllowedHosts)
         THEN MapTrim(Split(Val(opts.envAllowedHosts), ","))
         ELSE DefaultAllowedHosts

\* Variant: the blank entries are kept.
allowedHosts_Unfiltered == allowedHostsRaw

allowedHosts == FilterBoolean(allowedHostsRaw)

authToken == Coalesce(opts.authToken, opts.envToken)

requireAuth == Val(Coalesce(opts.requireAuth, Some(Truthy(authToken))))

isLoopbackHost(h) ==
    IF h \in {LOCALHOST, IP4_LOOPBACK, IP6_LOOPBACK} THEN TRUE
    ELSE IF isIP(h) = 4 THEN StartsWith(h, <<"1","2","7",".">>)
    ELSE IF isIP(h) = 6 THEN h = IP6_LOOPBACK
    ELSE FALSE

\* Variant: lockdown is not made to depend on authentication.
ValidateOptions_NoLockdownAuth ==
    IF port < 1 \/ port > 65535 THEN "invalid port"
    ELSE IF cdpPort < 1 \/ cdpPort > 65535 THEN "invalid cdpPort"
    ELSE IF port = cdpPort THEN "ports must differ"
    ELSE IF ~allowRemote /\ ~isLoopbackHost(host) THEN "non-loopback host"
    ELSE IF ~allowRemote /\ ~isLoopbackHost(cdpHost) THEN "non-loopback cdpHost"
    ELSE IF requireAuth /\ ~Truthy(authToken) THEN "auth required but no token"
    ELSE "ok"

\* The checks of serve() before the browser is launched, in order; "ok" when
\* none throws.
ValidateOptions ==
    IF port < 1 \/ port > 65535 THEN "invalid port"
    ELSE IF cdpPort < 1 \/ cdpPort > 65535 THEN "invalid cdpPort"
    ELSE IF port = cdpPort THEN "ports must differ"
    ELSE IF ~allowRemote /\ ~isLoopbackHost(host) THEN "non-loopback host"
    ELSE IF ~allowRemote /\ ~isLoopbackHost(cdpHost) THEN "non-loopback cdpHost"
    ELSE IF requireAuth /\ ~Truthy(authToken) THEN "auth required but no token"
    ELSE IF lockdown /\ ~requireAuth THEN "lockdown requires auth"
    ELSE "ok"

maxRetries == 5
delayMs == 500

----------------------------------------------------------------------------
(* serve(): startup steps *)

\* Entry of serve() up to the await of launchPersistentContext.
ServeValidate ==
    /\ phase = "unstarted"
    /\ phase' = IF ValidateOptions = "ok" THEN "launching" ELSE "failed"
    /\ UNCHANGED <<opts, context, wsEndpoint, fetchI, routeGate>>
    /\ UNCHANGED proc
    /\ UNCHANGED pageVars /\ UNCHANGED fnVars /\ UNCHANGED actVars

\* launchPersistentContext resolves; serve() runs on to its next await (the
\* first fetch, or context.route) or throws on an empty allowlist.
ContextLaunched ==
    /\ phase = "launching"
    /\ context' = "open"
    /\ phase' = IF ~lockdown THEN "fetching"
                ELSE IF Len(allowedHosts) = 0 THEN "failed"
                ELSE "routing"
    /\ UNCHANGED <<opts, wsEndpoint, fetchI, routeGate>>
    /\ UNCHANGED proc
    /\ UNCHANGED pageVars /\ UNCHANGED fnVars /\ UNCHANGED actVars

\* launchPersistentContext rejects.
LaunchFails ==
    /\ phase = "launching"
    /\ phase' = "failed"
    /\ UNCHANGED <<opts, context, wsEndpoint, fetchI, routeGate>>
    /\ UNCHANGED proc
    /\ UNCHANGED pageVars /\ UNCHANGED fnVars /\ UNCHANGED actVars

\* One attempt of fetchWithRetry answers ok; serve() stores the endpoint and
\* runs on through app.listen and the registration of the process handlers
\* to its return.
FetchOk ==
    /\ phase = "fetching"
    /\ wsEndpoint' = Some(CDP_URL)
    /\ fetchI' = 0
    /\ phase' = "listening"
    /\ UNCHANGED <<opts, context, routeGate>>
    /\ proc' = [proc EXCEPT !.registered = TRUE, !.slept = <<>>]
    /\ UNCHANGED pageVars /\ UNCHANGED fnVars /\ UNCHANGED actVars

\* The delay fetchWithRetry sleeps after the failure of attempt i (from 0).
RetryDelay(i) == delayMs * (i + 1)

\* Variant: when the retries are used up serve() goes on without an endpoint.
FetchFail_GoesOn ==
    /\ phase = "fetching"
    /\ IF fetchI < maxRetries - 1
       THEN /\ fetchI' = fetchI + 1 /\ phase' = phase
            /\ proc' = [proc EXCEPT !.slept = Append(@, RetryDelay(fetchI))]
       ELSE fetchI' = 0 /\ phase' = "listening"
            /\ proc' = [proc EXCEPT !.registered = TRUE, !.slept = <<>>]
    /\ UNCHANGED <<opts, context, wsEndpoint, routeGate>>
    /\ UNCHANGED pageVars /\ UNCHANGED fnVars /\ UNCHANGED actVars

\* Variant: the loop runs while i <= maxRetries.
FetchFail_OneMore ==
    /\ phase = "fetching"
    /\ IF fetchI < maxRetries
       THEN /\ fetchI' = fetchI + 1 /\ phase' = phase
            /\ proc' = [proc EXCEPT !.slept = Append(@, RetryDelay(fetchI))]
       ELSE fetchI' = 0 /\ phase' = "failed" /\ proc' = proc
    /\ UNCHANGED <<opts, context, wsEndpoint, routeGate>>
    /\ UNCHANGED pageVars /\ UNCHANGED fnVars /\ UNCHANGED actVars

\* One attempt of fetchWithRetry fails: sleep and go round, or give up with
\* the error that serve() lets through. proc.slept lists the delays slept by
\* the call; it is dropped when the call returns a response.
FetchFail ==
    /\ phase = "fetching"
    /\ IF fetchI < maxRetries - 1
       THEN /\ fetchI' = fetchI + 1 /\ phase' = phase
            /\ proc' = [proc EXCEPT !.slept = Append(@, RetryDelay(fetchI))]
       ELSE fetchI' = 0 /\ phase' = "failed" /\ proc' = proc
    /\ UNCHANGED <<opts, context, wsEndpoint, routeGate>>
    /\ UNCHANGED pageVars /\ UNCHANGED fnVars /\ UNCHANGED actVars

\* context.route resolves in lockdown; serve() runs on through app.listen and
\* the registration of the process handlers to its return.
RouteInstalled ==
    /\ phase = "routing"
    /\ routeGate' = TRUE
    /\ phase' = "listening"
    /\ UNCHANGED <<opts, context, wsEndpoint, fetchI>>
    /\ proc' = [proc EXCEPT !.registered = TRUE]
    /\ UNCHANGED pageVars /\ UNCHANGED fnVars /\ UNCHANGED actVars

ServeNext ==
    \/ ServeValidate
    \/ ContextLaunched
    \/ LaunchFails
    \/ FetchOk
    \/ FetchFail
    \/ RouteInstalled

----------------------------------------------------------------------------
(* Configurations serve() is started with *)

PortCases ==
    { [port |-> None, cdpPort |-> None],
      [port |-> Some(0), cdpPort |-> None],
      [port |-> None, cdpPort |-> Some(65536)],
      [port |-> Some(9223), cdpPort |-> None] }

HostCases ==
    { [host |-> None, cdpHost |-> None, allowRemote |-> None],
      [host |-> Some(IP4_ANY), cdpHost |-> None, allowRemote |-> None],
      [host |-> Some(IP4_LOOPBACK_OTHER), cdpHost |-> Some(NAME_127), allowRemote |-> Some(FALSE)],
      [host |-> Some(IP4_ANY), cdpHost |-> Some(IP4_ANY), allowRemote |-> Some(TRUE)] }

OptBool == {None, Some(TRUE), Some(FALSE)}
OptToken == {None, Some(<<>>), Some(TOKEN)}
OptHostList == {None, Some(<<>>), Some(<<<<>>>>), Some(<<<<>>, HOST_A>>), Some(<<WILD_B>>)}
EnvHostList == {None, Some(<<",">>), Some(<<" ">>), Some(<<" ">> \o HOST_A \o <<",">>)}

AllConfigs ==
    { [port |-> pc.port, cdpPort |-> pc.cdpPort,
       host |-> hc.host, cdpHost |-> hc.cdpHost, allowRemote |-> hc.allowRemote,
       lockdown |-> ld, envLockdown |-> eld,
       allowedHosts |-> ah, envAllowedHosts |-> eah,
       authToken |-> at, envToken |-> et, requireAuth |-> ra] :
      pc \in PortCases, hc \in HostCases, ld \in OptBool, eld \in BOOLEAN,
      ah \in OptHostList, eah \in EnvHostList,
      at \in OptToken, et \in {None, Some(TOKEN)}, ra \in OptBool }

BaseConfig ==
    [port |-> None, cdpPort |-> None, host |-> None, cdpHost |-> None,
     allowRemote |-> None, lockdown |-> None, envLockdown |-> FALSE,
     allowedHosts |-> None, envAllowedHosts |-> None,
     authToken |-> None, envToken |-> None, requireAuth |-> None]

\* Lockdown with a token and an allowlist.
LockdownConfig ==
    [BaseConfig EXCEPT !.lockdown = Some(TRUE), !.authToken = Some(TOKEN),
                       !.allowedHosts = Some(<<HOST_A, WILD_B>>)]

MaxPages == 2
MaxInflight == 2
PageIds == 1..MaxPages
Names == {"x", "y"}

\* The process before serve() has registered anything: registered is TRUE
\* while the signal and error handlers are on the process, pc is the await
\* cleanup() stands at, page the page whose close() it awaits, visited the
\* names its loop has passed, exitAfter the code of the process.exit that
\* follows it, exited the code the process ended with, atBegin the pages
\* that were registered when cleanup() began, slept the delays fetchWithRetry
\* has slept while it runs.
NoProc ==
    [registered |-> FALSE, cleaningUp |-> FALSE, pc |-> "idle", page |-> None,
     visited |-> {}, exitAfter |-> None, exited |-> None, atBegin |-> {},
     slept |-> <<>>]

\* A page's script context before any snapshot: no table, no reference minted.
NoTable == [table |-> None, minted |-> 0]

NoExchange ==
    [route |-> "", headers |-> None, name |-> None, status |-> 0,
     wsEndpoint |-> None, targetId |-> None, pages |-> {}, bodyOk |-> TRUE,
     arg |-> None, effect |-> None]

InitState(configs) ==
    /\ opts \in configs
    /\ phase = "unstarted"
    /\ context = "none"
    /\ wsEndpoint = None
    /\ fetchI = 0
    /\ routeGate = FALSE
    /\ pages = [p \in PageIds |-> "none"]
    /\ handlers = {}
    /\ registry = <<>>
    /\ reqs = <<>>
    /\ last = NoExchange
    /\ history = [p \in PageIds |-> None]
    /\ cdpSessions = 0
    /\ refs = [p \in PageIds |-> NoTable]
    /\ jsHandles = 0
    /\ popups = {}
    /\ proc = NoProc

----------------------------------------------------------------------------
(* The auth middleware *)

BEARER_PREFIX == <<"B","e","a","r","e","r"," ">>
Bearer(t) == BEARER_PREFIX \o t
BASIC_TOKEN == <<"B","a","s","i","c"," ">> \o TOKEN
\* "Bearer " as it arrives: a header value has no trailing space
BEARER_BARE == <<"B","e","a","r","e","r">>

\* The credential the middleware reads from the two headers:
\* bearer ?? (typeof tokenHeader === "string" ? tokenHeader : null)
RequestToken(h) ==
    LET header == IF Truthy(h.authorization) THEN Val(h.authorization) ELSE <<>>
        bearer == IF StartsWith(header, BEARER_PREFIX)
                  THEN Some(Slice(header, Len(BEARER_PREFIX)))
                  ELSE None
    IN  Coalesce(bearer, h.tokenHeader)

\* Variant: the secret is looked for in each of the two headers.
TokenAccepted_EitherHeader(h) ==
    \/ h.authorization = Some(Bearer(Val(authToken)))
    \/ h.tokenHeader = authToken

\* token && token === authToken
TokenAccepted(h) == Truthy(RequestToken(h)) /\ RequestToken(h) = authToken

\* The middleware is installed only when requireAuth holds.
Passes(h) == requireAuth => TokenAccepted(h)

----------------------------------------------------------------------------
(* The registry and the pages *)

\* Variant: the lookup never finds an entry.
Has_Never(n) == FALSE
\* Variant: delete leaves the map as it is.
RegDelete_Keep(reg, ns) == reg

Has(n) == n \in DOMAIN registry
RegSet(reg, n, e) == [m \in DOMAIN reg \cup {n} |-> IF m = n THEN e ELSE reg[m]]
RegDelete(reg, ns) == [m \in DOMAIN reg \ ns |-> reg[m]]

FreshPages == {p \in PageIds : pages[p] = "none"}
FreshPage == CHOOSE p \in FreshPages : \A q \in FreshPages : p <= q

\* The suspended handlers are kept as a list ordered by Key, so that two
\* states differing only in the order of the list are one state.
OpIndex(op) ==
    CASE op = "POST /pages" -> 1
      [] op = "DELETE /pages/:name" -> 2
      [] OTHER -> 3
PcIndex(pc) ==
    CASE pc = "newPage" -> 1
      [] pc = "newCDPSession" -> 2
      [] pc = "send" -> 3
      [] pc = "detach" -> 4
      [] pc = "close" -> 5
      [] OTHER -> 6
NameIndex(n) == IF n = "x" THEN 1 ELSE 2
Key(r) ==
    (((r.page * 4 + OpIndex(r.op)) * 8 + PcIndex(r.pc)) * 2
       + (IF r.failed THEN 1 ELSE 0)) * 4 + NameIndex(r.name)
RECURSIVE Insert(_, _)
Insert(q, r) ==
    IF q = <<>> \/ Key(r) <= Key(Head(q)) THEN <<r>> \o q
    ELSE <<Head(q)>> \o Insert(Tail(q), r)
Remove(q, i) == SubSeq(q, 1, i - 1) \o SubSeq(q, i + 1, Len(q))
Replace(q, i, r) == Insert(Remove(q, i), r)
Waiting == 1..Len(reqs)
CanSuspend == Len(reqs) < MaxInflight

Suspended(op, name, pc, page) ==
    [op |-> op, name |-> name, pc |-> pc, page |-> page, targetId |-> None,
     failed |-> FALSE, arg |-> None]

\* A suspended handler that holds an argument of its request body.
SuspendedWith(op, name, pc, page, arg) ==
    [Suspended(op, name, pc, page) EXCEPT !.arg = Some(arg)]

LONG_NAME == "long"
\* name.length of the names the model uses
NameLength(n) ==
    CASE n = "" -> 0
      [] n = LONG_NAME -> 257
      [] OTHER -> 1

\* Target.getTargetInfo's targetId of page p
CdpTargetId(p) == <<"cdp", ToString(p)>>
LockdownTargetId(n) == <<"lockdown", n>>

\* The server's socket is bound: from app.listen until cleanup() calls
\* server.close() or the process exits.
Listening == phase \in {"listening", "shuttingDown"}

Exchange(route, h, name, status) ==
    [route |-> route, headers |-> Some(h), name |-> name, status |-> status,
     wsEndpoint |-> None, targetId |-> None, pages |-> {}, bodyOk |-> TRUE,
     arg |-> None, effect |-> None]

\* A response sent when a suspended handler resumes.
Resumed(r, status) ==
    [route |-> r.op, headers |-> None, name |-> Some(r.name), status |-> status,
     wsEndpoint |-> None, targetId |-> None, pages |-> {}, bodyOk |-> TRUE,
     arg |-> r.arg, effect |-> None]

\* Variant: the target id is spread into the answer in every mode.
GetPageResponse_WithTarget(base, entry) ==
    [base EXCEPT !.wsEndpoint = wsEndpoint, !.targetId = Some(entry.targetId)]

\* The body of POST /pages's 200 answer: lines 393-398.
GetPageResponse(base, entry) ==
    [base EXCEPT !.wsEndpoint = wsEndpoint,
                 !.targetId = IF lockdown THEN None ELSE Some(entry.targetId)]

\* express.json(), installed before the auth middleware, rejects a body that
\* is not JSON: the request is answered 400 and goes no further.
BodyParseFails(route, h) ==
    /\ Listening
    /\ last' = [Exchange(route, h, None, 400) EXCEPT !.bodyOk = FALSE]
    /\ UNCHANGED <<pages, handlers, registry, reqs, history, cdpSessions>>
    /\ UNCHANGED serveVars /\ UNCHANGED fnVars /\ UNCHANGED actVars

\* The middleware answers 401; no handler runs.
Unauthorized(route, h) ==
    /\ Listening
    /\ ~Passes(h)
    /\ last' = Exchange(route, h, None, 401)
    /\ UNCHANGED <<pages, handlers, registry, reqs, history, cdpSessions>>
    /\ UNCHANGED serveVars /\ UNCHANGED fnVars /\ UNCHANGED actVars

\* GET /
GetRoot(h) ==
    /\ Listening
    /\ Passes(h)
    /\ last' = [Exchange("GET /", h, None, 200) EXCEPT !.wsEndpoint = wsEndpoint]
    /\ UNCHANGED <<pages, handlers, registry, reqs, history, cdpSessions>>
    /\ UNCHANGED serveVars /\ UNCHANGED fnVars /\ UNCHANGED actVars

\* GET /pages
GetPages(h) ==
    /\ Listening
    /\ Passes(h)
    /\ last' = [Exchange("GET /pages", h, None, 200) EXCEPT !.pages = DOMAIN registry]
    /\ UNCHANGED <<pages, handlers, registry, reqs, history, cdpSessions>>
    /\ UNCHANGED serveVars /\ UNCHANGED fnVars /\ UNCHANGED actVars

\* registry.set(name, entry); page.on("close", ...); res.json(response)
Register(i, entry, base) ==
    /\ registry' = RegSet(registry, reqs[i].name, entry)
    /\ handlers' = handlers \cup {<<entry.page, reqs[i].name>>}
    /\ last' = GetPageResponse(base, entry)
    /\ history' = [history EXCEPT ![entry.page] =
                        Some([name |-> reqs[i].name,
                              targetId |-> GetPageResponse(base, entry).targetId,
                              deleted |-> FALSE])]
    /\ reqs' = Remove(reqs, i)

\* POST /pages up to its first await (or its answer).
PostPages(h, name) ==
    /\ Listening
    /\ Passes(h)
    /\ IF ~IsSome(name) \/ Val(name) = "" \/ NameLength(Val(name)) > 256
       THEN /\ last' = Exchange("POST /pages", h, name, 400)
            /\ UNCHANGED <<pages, reqs>>
       ELSE IF Has(Val(name))
       THEN /\ last' = GetPageResponse(Exchange("POST /pages", h, name, 200),
                                        registry[Val(name)])
            /\ UNCHANGED <<pages, reqs>>
       ELSE /\ CanSuspend
            /\ FreshPages # {}
            /\ pages' = [pages EXCEPT ![FreshPage] = "creating"]
            /\ reqs' = Insert(reqs, Suspended("POST /pages", Val(name), "newPage",
                                              FreshPage))
            /\ last' = Exchange("POST /pages", h, name, 0)
    /\ UNCHANGED <<handlers, registry, history, cdpSessions>>
    /\ UNCHANGED serveVars /\ UNCHANGED fnVars /\ UNCHANGED actVars

\* context.newPage() resolves before the timeout: lines 382-391.
NewPageResolved(i) ==
    /\ reqs[i].pc = "newPage"
    /\ context = "open"
    /\ pages[reqs[i].page] = "creating"
    /\ pages' = [pages EXCEPT ![reqs[i].page] = "open"]
    /\ IF lockdown
       THEN /\ Register(i, [page |-> reqs[i].page,
                            targetId |-> LockdownTargetId(reqs[i].name)],
                        Resumed(reqs[i], 200))
       ELSE /\ reqs' = Replace(reqs, i, [reqs[i] EXCEPT !.pc = "newCDPSession"])
            /\ last' = NoExchange
            /\ UNCHANGED <<handlers, registry, history>>
    /\ UNCHANGED cdpSessions
    /\ UNCHANGED serveVars /\ UNCHANGED fnVars /\ UNCHANGED actVars

\* What a step did besides answering: a call made on the browser (page.goto,
\* route.continue or abort, click, fill, screenshot) or the timer of
\* withTimeout firing.
Effect(kind, page, arg) == Some([kind |-> kind, page |-> page, arg |-> arg])

\* Variant: the timer's rejection is left unhandled, so that errorHandler runs
\* and starts cleanup().
NewPageTimeout_Unhandled(i) ==
    /\ reqs[i].pc = "newPage"
    /\ reqs' = Remove(reqs, i)
    /\ last' = [Resumed(reqs[i], 500) EXCEPT
                  !.effect = Effect("timeout", reqs[i].page, None)]
    /\ phase' = "shuttingDown"
    /\ proc' = [proc EXCEPT !.cleaningUp = TRUE, !.exitAfter = Some(1), !.pc = "context"]
    /\ UNCHANGED <<pages, handlers, registry, history, cdpSessions>>
    /\ UNCHANGED <<opts, context, wsEndpoint, fetchI, routeGate>>
    /\ UNCHANGED fnVars /\ UNCHANGED actVars

\* withTimeout's timer fires first: the handler throws, asyncHandler answers 500.
\* The page the context is still creating is left to itself.
NewPageTimeout(i) ==
    /\ reqs[i].pc = "newPage"
    /\ reqs' = Remove(reqs, i)
    /\ last' = [Resumed(reqs[i], 500) EXCEPT
                  !.effect = Effect("timeout", reqs[i].page, None)]
    /\ UNCHANGED <<pages, handlers, registry, history, cdpSessions>>
    /\ UNCHANGED serveVars /\ UNCHANGED fnVars /\ UNCHANGED actVars

\* context.newPage() rejects because the context is closing or closed: the
\* handler throws, asyncHandler answers 500.
NewPageRejected(i) ==
    /\ reqs[i].pc = "newPage"
    /\ context # "open"
    /\ pages' = [pages EXCEPT ![reqs[i].page] = "closed"]
    /\ reqs' = Remove(reqs, i)
    /\ last' = Resumed(reqs[i], 500)
    /\ UNCHANGED <<handlers, registry, history, cdpSessions>>
    /\ UNCHANGED serveVars /\ UNCHANGED fnVars /\ UNCHANGED actVars

\* A page whose request has timed out finishes opening.
AbandonedPageOpens(p) ==
    /\ context = "open"
    /\ pages[p] = "creating"
    /\ \A i \in Waiting : ~(reqs[i].pc = "newPage" /\ reqs[i].page = p)
    /\ pages' = [pages EXCEPT ![p] = "open"]
    /\ last' = NoExchange
    /\ UNCHANGED <<handlers, registry, reqs, history, cdpSessions>>
    /\ UNCHANGED serveVars /\ UNCHANGED fnVars /\ UNCHANGED actVars

\* getTargetId: context.newCDPSession(page) resolves; cdpSession.send is called.
\* A sub-session is opened on a page that has not closed.
CdpSessionOpened(i) ==
    /\ reqs[i].pc = "newCDPSession"
    /\ context = "open"
    /\ pages[reqs[i].page] # "closed"
    /\ cdpSessions' = cdpSessions + 1
    /\ reqs' = Replace(reqs, i, [reqs[i] EXCEPT !.pc = "send"])
    /\ last' = NoExchange
    /\ UNCHANGED <<pages, handlers, registry, history>>
    /\ UNCHANGED serveVars /\ UNCHANGED fnVars /\ UNCHANGED actVars

\* getTargetId: context.newCDPSession(page) rejects; asyncHandler answers 500.
CdpSessionFails(i) ==
    /\ reqs[i].pc = "newCDPSession"
    /\ reqs' = Remove(reqs, i)
    /\ last' = Resumed(reqs[i], 500)
    /\ UNCHANGED <<pages, handlers, registry, history, cdpSessions>>
    /\ UNCHANGED serveVars /\ UNCHANGED fnVars /\ UNCHANGED actVars

\* Variant: no finally; a failure of send leaves getTargetId at once.
CdpSendSettles_NoFinally(i, ok) ==
    /\ reqs[i].pc = "send"
    /\ ok => context = "open" /\ pages[reqs[i].page] # "closed"
    /\ IF ok
       THEN /\ reqs' = Replace(reqs, i,
                               [reqs[i] EXCEPT !.pc = "detach",
                                               !.failed = FALSE,
                                               !.targetId = Some(CdpTargetId(reqs[i].page))])
            /\ last' = NoExchange
       ELSE /\ reqs' = Remove(reqs, i)
            /\ last' = Resumed(reqs[i], 500)
    /\ UNCHANGED <<pages, handlers, registry, history, cdpSessions>>
    /\ UNCHANGED serveVars /\ UNCHANGED fnVars /\ UNCHANGED actVars

\* getTargetId: Target.getTargetInfo answers or fails; finally calls detach.
CdpSendSettles(i, ok) ==
    /\ reqs[i].pc = "send"
    /\ ok => context = "open" /\ pages[reqs[i].page] # "closed"
    /\ reqs' = Replace(reqs, i,
                       [reqs[i] EXCEPT !.pc = "detach",
                                       !.failed = ~ok,
                                       !.targetId = IF ok
                                                    THEN Some(CdpTargetId(reqs[i].page))
                                                    ELSE None])
    /\ last' = NoExchange
    /\ UNCHANGED <<pages, handlers, registry, history, cdpSessions>>
    /\ UNCHANGED serveVars /\ UNCHANGED fnVars /\ UNCHANGED actVars

\* getTargetId: detach resolves; the handler registers the page and answers,
\* or rethrows the failure of send.
CdpDetached(i) ==
    /\ reqs[i].pc = "detach"
    /\ context = "open"
    /\ cdpSessions' = cdpSessions - 1
    /\ IF reqs[i].failed
       THEN /\ reqs' = Remove(reqs, i)
            /\ last' = Resumed(reqs[i], 500)
            /\ UNCHANGED <<handlers, registry, history>>
       ELSE Register(i, [page |-> reqs[i].page, targetId |-> Val(reqs[i].targetId)],
                     Resumed(reqs[i], 200))
    /\ UNCHANGED pages
    /\ UNCHANGED serveVars /\ UNCHANGED fnVars /\ UNCHANGED actVars

\* getTargetId: detach rejects; the handler throws, asyncHandler answers 500.
CdpDetachFails(i) ==
    /\ reqs[i].pc = "detach"
    /\ reqs' = Remove(reqs, i)
    /\ last' = Resumed(reqs[i], 500)
    /\ UNCHANGED <<pages, handlers, registry, history, cdpSessions>>
    /\ UNCHANGED serveVars /\ UNCHANGED fnVars /\ UNCHANGED actVars

\* Variant: no observer is registered on "close".
PageClosed_NoObserver(p) ==
    /\ pages[p] \in {"open", "closing"}
    /\ pages' = [pages EXCEPT ![p] = "closed"]
    /\ handlers' = {hd \in handlers : hd[1] # p}
    /\ last' = NoExchange
    /\ UNCHANGED <<registry, reqs, history, cdpSessions>>
    /\ UNCHANGED serveVars /\ UNCHANGED fnVars /\ UNCHANGED actVars

\* Variant: close() does nothing.
ClosePage_Noop(pgs, p) == pgs

\* The page emits "close": every observer registered on it runs
\* registry.delete(name).
PageClosed(p) ==
    /\ pages[p] \in {"open", "closing"}
    /\ pages' = [pages EXCEPT ![p] = "closed"]
    /\ registry' = RegDelete(registry, {n \in Names : <<p, n>> \in handlers})
    /\ handlers' = {hd \in handlers : hd[1] # p}
    /\ last' = NoExchange
    /\ UNCHANGED <<reqs, history, cdpSessions>>
    /\ UNCHANGED serveVars /\ UNCHANGED fnVars /\ UNCHANGED actVars

\* page.close() as called by a handler
ClosePage(pgs, p) == IF pgs[p] = "open" THEN [pgs EXCEPT ![p] = "closing"] ELSE pgs

\* DELETE /pages/:name up to its await of page.close() (or its 404).
DeletePage(h, name) ==
    /\ Listening
    /\ Passes(h)
    /\ IF Has(name)
       THEN /\ CanSuspend
            /\ pages' = ClosePage(pages, registry[name].page)
            /\ reqs' = Insert(reqs, Suspended("DELETE /pages/:name", name, "close",
                                              registry[name].page))
            /\ last' = Exchange("DELETE /pages/:name", h, Some(name), 0)
       ELSE /\ last' = Exchange("DELETE /pages/:name", h, Some(name), 404)
            /\ UNCHANGED <<pages, reqs>>
    /\ UNCHANGED <<handlers, registry, history, cdpSessions>>
    /\ UNCHANGED serveVars /\ UNCHANGED fnVars /\ UNCHANGED actVars

\* page.close() has resolved: registry.delete(name); res.json({success: true}).
DeleteResumes(i) ==
    /\ reqs[i].pc = "close"
    /\ pages[reqs[i].page] = "closed"
    /\ registry' = RegDelete(registry, {reqs[i].name})
    /\ reqs' = Remove(reqs, i)
    /\ last' = Resumed(reqs[i], 200)
    /\ history' = [history EXCEPT ![reqs[i].page] =
                        IF IsSome(@) THEN Some([Val(@) EXCEPT !.deleted = TRUE]) ELSE @]
    /\ UNCHANGED <<pages, handlers, cdpSessions>>
    /\ UNCHANGED serveVars /\ UNCHANGED fnVars /\ UNCHANGED actVars

\* POST /pages/:name/press, registered in lockdown only, up to its await.
PostPress(h, name, key) ==
    /\ Listening
    /\ Passes(h)
    /\ IF ~lockdown \/ ~Has(name)
       THEN /\ last' = Exchange("POST /pages/:name/press", h, Some(name), 404)
            /\ UNCHANGED reqs
       ELSE IF ~IsSome(key) \/ Val(key) = <<>> \/ Len(Val(key)) > 64
       THEN /\ last' = Exchange("POST /pages/:name/press", h, Some(name), 400)
            /\ UNCHANGED reqs
       ELSE /\ CanSuspend
            /\ reqs' = Insert(reqs, Suspended("POST /pages/:name/press", name, "press",
                                              registry[name].page))
            /\ last' = Exchange("POST /pages/:name/press", h, Some(name), 0)
    /\ UNCHANGED <<pages, handlers, registry, history, cdpSessions>>
    /\ UNCHANGED serveVars /\ UNCHANGED fnVars /\ UNCHANGED actVars

\* keyboard.press settles: 200, or 500 from asyncHandler.
PressSettles(i, ok) ==
    /\ reqs[i].pc = "press"
    /\ reqs' = Remove(reqs, i)
    /\ last' = Resumed(reqs[i], IF ok THEN 200 ELSE 500)
    /\ UNCHANGED <<pages, handlers, registry, history, cdpSessions>>
    /\ UNCHANGED serveVars /\ UNCHANGED fnVars /\ UNCHANGED actVars

----------------------------------------------------------------------------
(* The allowlist matcher *)

HTTP == <<"h","t","t","p",":">>
HTTPS == <<"h","t","t","p","s",":">>
DATA == <<"d","a","t","a",":">>
BLOB == <<"b","l","o","b",":">>
FTP == <<"f","t","p",":">>

\* Variant: the suffix is cut after the dot of "*.".
HostAllowedBy_NoDot(hostname, allowed) ==
    LET a == ToLowerCase(allowed)
    IN  IF StartsWith(a, <<"*", ".">>)
        THEN LET suffix == Slice(a, 2)
             IN  EndsWith(hostname, suffix) /\ hostname # suffix
        ELSE hostname = a

\* The callback of allowedHosts.some: lines 288-295.
HostAllowedBy(hostname, allowed) ==
    LET a == ToLowerCase(allowed)
    IN  IF StartsWith(a, <<"*", ".">>)
        THEN LET suffix == Slice(a, 1)
             IN  EndsWith(hostname, suffix) /\ hostname # Slice(suffix, 1)
        ELSE hostname = a

\* Variant: the scheme is not looked at before the hostname.
isAllowedUrl_AnyScheme(url) ==
    IF ~url.parses THEN FALSE
    ELSE LET protocol == ToLowerCase(url.protocol)
         IN  IF protocol = DATA \/ protocol = BLOB THEN TRUE
             ELSE LET hostname == ToLowerCase(url.hostname)
                  IN  \E i \in 1..Len(allowedHosts) :
                          HostAllowedBy(hostname, allowedHosts[i])

\* isAllowedUrl: a url is what new URL(url) makes of it, or does not parse.
isAllowedUrl(url) ==
    IF ~url.parses THEN FALSE
    ELSE LET protocol == ToLowerCase(url.protocol)
         IN  IF protocol = DATA \/ protocol = BLOB THEN TRUE
             ELSE IF protocol # HTTP /\ protocol # HTTPS THEN FALSE
             ELSE LET hostname == ToLowerCase(url.hostname)
                  IN  \E i \in 1..Len(allowedHosts) :
                          HostAllowedBy(hostname, allowedHosts[i])

\* The matcher applied to the url under check: its verdict, and the verdict
\* of the callback on every entry of the allowlist.
ApplyMatcher ==
    /\ fnOut = None
    /\ fnOut' = Some([allowed |-> isAllowedUrl(fnIn),
                      by |-> [i \in 1..Len(allowedHosts) |->
                                 HostAllowedBy(ToLowerCase(fnIn.hostname),
                                               allowedHosts[i])]])
    /\ UNCHANGED <<client, fnIn>>
    /\ UNCHANGED serveVars /\ UNCHANGED pageVars /\ UNCHANGED actVars

----------------------------------------------------------------------------
(* Lockdown: navigation, the request gate and popups *)


\* Variant: the url is not checked against the allowlist.
PostGoto_NoCheck(h, name, url) ==
    /\ Listening
    /\ Passes(h)
    /\ IF ~lockdown \/ ~Has(name)
       THEN /\ last' = [Exchange("POST /pages/:name/goto", h, Some(name), 404)
                            EXCEPT !.arg = url]
            /\ UNCHANGED reqs
       ELSE IF ~IsSome(url)
       THEN /\ last' = [Exchange("POST /pages/:name/goto", h, Some(name), 400)
                            EXCEPT !.arg = url]
            /\ UNCHANGED reqs
       ELSE /\ CanSuspend
            /\ reqs' = Insert(reqs, SuspendedWith("POST /pages/:name/goto", name,
                                                  "goto", registry[name].page,
                                                  Val(url)))
            /\ last' = [Exchange("POST /pages/:name/goto", h, Some(name), 0)
                            EXCEPT !.arg = url,
                                   !.effect = Effect("goto", registry[name].page,
                                                     Val(url))]
    /\ UNCHANGED <<pages, handlers, registry, history, cdpSessions>>
    /\ UNCHANGED serveVars /\ UNCHANGED fnVars /\ UNCHANGED actVars

\* POST /pages/:name/goto, registered in lockdown only, up to its await of
\* page.goto (or its answer). A url is absent (not a string, empty or too
\* long) or a string.
PostGoto(h, name, url) ==
    /\ Listening
    /\ Passes(h)
    /\ IF ~lockdown \/ ~Has(name)
       THEN /\ last' = [Exchange("POST /pages/:name/goto", h, Some(name), 404)
                            EXCEPT !.arg = url]
            /\ UNCHANGED reqs
       ELSE IF ~IsSome(url)
       THEN /\ last' = [Exchange("POST /pages/:name/goto", h, Some(name), 400)
                            EXCEPT !.arg = url]
            /\ UNCHANGED reqs
       ELSE IF ~isAllowedUrl(Val(url))
       THEN /\ last' = [Exchange("POST /pages/:name/goto", h, Some(name), 403)
                            EXCEPT !.arg = url]
            /\ UNCHANGED reqs
       ELSE /\ CanSuspend
            /\ reqs' = Insert(reqs, SuspendedWith("POST /pages/:name/goto", name,
                                                  "goto", registry[name].page,
                                                  Val(url)))
            /\ last' = [Exchange("POST /pages/:name/goto", h, Some(name), 0)
                            EXCEPT !.arg = url,
                                   !.effect = Effect("goto", registry[name].page,
                                                     Val(url))]
    /\ UNCHANGED <<pages, handlers, registry, history, cdpSessions>>
    /\ UNCHANGED serveVars /\ UNCHANGED fnVars /\ UNCHANGED actVars

\* page.goto settles: on success the page has a new document, whose script
\* context has no reference table, and the handler awaits page.title(); on
\* failure asyncHandler answers 500.
GotoSettles(i, ok) ==
    /\ reqs[i].pc = "goto"
    /\ IF ok
       THEN /\ pages[reqs[i].page] = "open"
            /\ refs' = [refs EXCEPT ![reqs[i].page].table = None]
            /\ reqs' = Replace(reqs, i, [reqs[i] EXCEPT !.pc = "title"])
            /\ last' = NoExchange
       ELSE /\ refs' = refs
            /\ reqs' = Remove(reqs, i)
            /\ last' = Resumed(reqs[i], 500)
    /\ UNCHANGED <<pages, handlers, registry, history, cdpSessions>>
    /\ UNCHANGED <<jsHandles, popups>>
    /\ UNCHANGED serveVars /\ UNCHANGED fnVars

\* page.title() settles: 200, or 500 from asyncHandler.
TitleSettles(i, ok) ==
    /\ reqs[i].pc = "title"
    /\ reqs' = Remove(reqs, i)
    /\ last' = Resumed(reqs[i], IF ok THEN 200 ELSE 500)
    /\ UNCHANGED <<pages, handlers, registry, history, cdpSessions>>
    /\ UNCHANGED serveVars /\ UNCHANGED fnVars /\ UNCHANGED actVars

\* Variant: the handler continues every request.
RouteGate_ContinueAll(url) == "continue"

\* The handler of context.route("**/*"): lines 299-302.
RouteGate(url) == IF isAllowedUrl(url) THEN "continue" ELSE "abort"

\* A page of the context issues a request (a navigation, a redirect, a
\* sub-resource): it goes through the handler when one is installed, and
\* straight to the network when none is.
PageRequest(p, url) ==
    /\ context = "open"
    /\ pages[p] \in {"open", "closing"}
    /\ last' = [NoExchange EXCEPT
                   !.effect = Effect(IF routeGate THEN RouteGate(url) ELSE "network",
                                     p, url)]
    /\ UNCHANGED <<pages, handlers, registry, reqs, history, cdpSessions>>
    /\ UNCHANGED serveVars /\ UNCHANGED fnVars /\ UNCHANGED actVars

----------------------------------------------------------------------------
(* Shutdown: cleanup(), the process handlers and stop() *)

Alive == proc.exited = None

SIGNAL == "signal"
FAULT == "fault"
STOP == "stop"
\* process.exit's code after cleanup(): signalHandler 0, errorHandler 1, none
\* for stop()
ExitCode(trigger) ==
    CASE trigger = SIGNAL -> Some(0)
      [] trigger = FAULT -> Some(1)
      [] OTHER -> None

\* Variant: the registry is not cleared after the loop.
CleanupLoop_NoClear(pr) ==
    LET todo == {n \in DOMAIN registry : registry[n].page \notin pr.visited}
    IN  IF todo # {}
        THEN \E n \in todo :
               /\ pages' = ClosePage(pages, registry[n].page)
               /\ proc' = [pr EXCEPT !.pc = "page", !.page = Some(registry[n].page),
                                     !.visited = @ \cup {registry[n].page}]
               /\ UNCHANGED <<registry, context>>
        ELSE /\ context' = IF context = "open" THEN "closing" ELSE context
             /\ proc' = [pr EXCEPT !.pc = "context", !.page = None]
             /\ UNCHANGED <<pages, registry>>

\* cleanup()'s loop over registry.values() up to its next await: close() is
\* called on an entry the loop has not passed, or, at the end of the loop,
\* registry.clear() runs and context.close() is called. pr is the process
\* record to go on from. (The registry is a map here, so the order of the
\* loop is left open.)
CleanupLoop(pr) ==
    LET todo == {n \in DOMAIN registry : registry[n].page \notin pr.visited}
    IN  IF todo # {}
        THEN \E n \in todo :
               /\ pages' = ClosePage(pages, registry[n].page)
               /\ proc' = [pr EXCEPT !.pc = "page", !.page = Some(registry[n].page),
                                     !.visited = @ \cup {registry[n].page}]
               /\ UNCHANGED <<registry, context>>
        ELSE /\ registry' = <<>>
             /\ context' = IF context = "open" THEN "closing" ELSE context
             /\ proc' = [pr EXCEPT !.pc = "context", !.page = None]
             /\ UNCHANGED pages

\* A signal arrives, an uncaught error or unhandled rejection occurs, or
\* stop() is called, while cleaningUp is false: cleanup() sets the flag,
\* destroys the open sockets and runs to its first await.
CleanupBegins(trigger) ==
    /\ Alive
    /\ phase = "listening"
    /\ ~proc.cleaningUp
    /\ trigger \in {SIGNAL, FAULT} => proc.registered
    /\ phase' = "shuttingDown"
    /\ CleanupLoop([proc EXCEPT !.cleaningUp = TRUE,
                                !.registered = IF trigger = STOP THEN FALSE ELSE @,
                                !.exitAfter = ExitCode(trigger),
                                !.atBegin = {registry[n].page : n \in DOMAIN registry}])
    /\ last' = NoExchange
    /\ UNCHANGED <<handlers, reqs, history, cdpSessions>>
    /\ UNCHANGED <<opts, wsEndpoint, fetchI, routeGate>>
    /\ UNCHANGED fnVars /\ UNCHANGED actVars

\* Variant: a rejection of page.close() is not caught and ends cleanup().
CleanupPageSettles_Rethrows(ok) ==
    /\ Alive
    /\ proc.pc = "page"
    /\ ok => pages[Val(proc.page)] = "closed"
    /\ IF ok
       THEN CleanupLoop(proc)
       ELSE /\ proc' = [proc EXCEPT !.pc = "done", !.page = None, !.exited = proc.exitAfter]
            /\ UNCHANGED <<pages, registry, context>>
    /\ last' = NoExchange
    /\ UNCHANGED <<handlers, reqs, history, cdpSessions>>
    /\ UNCHANGED <<opts, phase, wsEndpoint, fetchI, routeGate>>
    /\ UNCHANGED fnVars /\ UNCHANGED actVars

\* The awaited page.close() of the loop settles (a rejection is swallowed) and
\* the loop goes on.
CleanupPageSettles(ok) ==
    /\ Alive
    /\ proc.pc = "page"
    /\ ok => pages[Val(proc.page)] = "closed"
    /\ CleanupLoop(proc)
    /\ last' = NoExchange
    /\ UNCHANGED <<handlers, reqs, history, cdpSessions>>
    /\ UNCHANGED <<opts, phase, wsEndpoint, fetchI, routeGate>>
    /\ UNCHANGED fnVars /\ UNCHANGED actVars

\* The awaited context.close() settles (a rejection is swallowed): closing
\* the context has closed its pages, whose observers ran; server.close() is
\* called, and signalHandler or errorHandler goes on to process.exit.
CleanupContextSettles(ok) ==
    /\ Alive
    /\ proc.pc = "context"
    /\ IF ok
       THEN /\ context' = "closed"
            /\ pages' = [q \in PageIds |-> IF pages[q] = "none" THEN "none" ELSE "closed"]
            /\ registry' = RegDelete(registry, {hd[2] : hd \in handlers})
            /\ handlers' = {}
       ELSE UNCHANGED <<context, pages, registry, handlers>>
    /\ phase' = "stopped"
    /\ proc' = [proc EXCEPT !.pc = "done", !.exited = proc.exitAfter]
    /\ last' = NoExchange
    /\ UNCHANGED <<reqs, history, cdpSessions>>
    /\ UNCHANGED <<opts, wsEndpoint, fetchI, routeGate>>
    /\ UNCHANGED fnVars /\ UNCHANGED actVars

\* A signal or an error while cleanup() is under way: the second cleanup()
\* returns at once and the handler calls process.exit; the exit observer
\* syncCleanup calls context.close() without awaiting it.
ExitDuringCleanup(trigger) ==
    /\ Alive
    /\ phase = "shuttingDown"
    /\ proc.registered
    /\ trigger \in {SIGNAL, FAULT}
    /\ phase' = "stopped"
    /\ context' = IF context = "open" THEN "closing" ELSE context
    /\ proc' = [proc EXCEPT !.exited = ExitCode(trigger)]
    /\ last' = NoExchange
    /\ UNCHANGED <<pages, handlers, registry, reqs, history, cdpSessions>>
    /\ UNCHANGED <<opts, wsEndpoint, fetchI, routeGate>>
    /\ UNCHANGED fnVars /\ UNCHANGED actVars

\* stop() while cleanup() is under way: the handlers are removed and the
\* second cleanup() returns at once.
StopDuringCleanup ==
    /\ Alive
    /\ phase = "shuttingDown"
    /\ proc.registered
    /\ proc' = [proc EXCEPT !.registered = FALSE]
    /\ last' = NoExchange
    /\ UNCHANGED <<pages, handlers, registry, reqs, history, cdpSessions>>
    /\ UNCHANGED <<opts, phase, context, wsEndpoint, fetchI, routeGate>>
    /\ UNCHANGED fnVars /\ UNCHANGED actVars

----------------------------------------------------------------------------
(* Lockdown: snapshots and actions by reference *)

POST_SNAPSHOT == "POST /pages/:name/snapshot"
POST_CLICK_REF == "POST /pages/:name/click-ref"
POST_FILL_REF == "POST /pages/:name/fill-ref"
RefRoutes == {POST_CLICK_REF, POST_FILL_REF}

\* A page's script context holds at most MaxMinted references over its life.
MaxMinted == 2
MaxHandles == 2

\* POST /pages/:name/snapshot up to its await of page.evaluate (or its 404).
PostSnapshot(h, name) ==
    /\ Listening
    /\ Passes(h)
    /\ IF ~lockdown \/ ~Has(name)
       THEN /\ last' = Exchange(POST_SNAPSHOT, h, Some(name), 404)
            /\ UNCHANGED reqs
       ELSE /\ CanSuspend
            /\ reqs' = Insert(reqs, Suspended(POST_SNAPSHOT, name, "evaluate",
                                              registry[name].page))
            /\ last' = Exchange(POST_SNAPSHOT, h, Some(name), 0)
    /\ UNCHANGED <<pages, handlers, registry, history, cdpSessions>>
    /\ UNCHANGED serveVars /\ UNCHANGED fnVars /\ UNCHANGED actVars

\* __devBrowser_getAISnapshot() in the page: the table is replaced by one
\* that maps a freshly minted reference to the page's element.
GetAISnapshot(t) == [table |-> Some({t.minted + 1}), minted |-> t.minted + 1]

\* page.evaluate of the snapshot script settles: 200 with the summary, or 500
\* from asyncHandler when it threw.
SnapshotSettles(i, ok) ==
    /\ reqs[i].pc = "evaluate"
    /\ reqs' = Remove(reqs, i)
    /\ IF ok
       THEN /\ pages[reqs[i].page] = "open"
            /\ refs[reqs[i].page].minted < MaxMinted
            /\ refs' = [refs EXCEPT ![reqs[i].page] = GetAISnapshot(@)]
            /\ last' = [Resumed(reqs[i], 200) EXCEPT
                          !.effect = Effect("snapshot", reqs[i].page,
                                            Val(refs'[reqs[i].page].table))]
       ELSE /\ refs' = refs
            /\ last' = Resumed(reqs[i], 500)
    /\ UNCHANGED <<pages, handlers, registry, history, cdpSessions>>
    /\ UNCHANGED <<jsHandles, popups>>
    /\ UNCHANGED serveVars /\ UNCHANGED fnVars

\* POST /pages/:name/click-ref and /fill-ref up to the await of
\* page.evaluateHandle (or their 404 and 400). ref is None when the body's ref
\* is not a string of the shape e<digits>, else Some(k) for "e<k>".
PostRef(route, h, name, ref, textOk) ==
    /\ Listening
    /\ Passes(h)
    /\ IF ~lockdown \/ ~Has(name)
       THEN /\ last' = [Exchange(route, h, Some(name), 404) EXCEPT !.arg = ref]
            /\ UNCHANGED reqs
       ELSE IF ~IsSome(ref) \/ (route = POST_FILL_REF /\ ~textOk)
       THEN /\ last' = [Exchange(route, h, Some(name), 400) EXCEPT !.arg = ref]
            /\ UNCHANGED reqs
       ELSE /\ CanSuspend
            /\ reqs' = Insert(reqs, SuspendedWith(route, name, "evaluateHandle",
                                                  registry[name].page, Val(ref)))
            /\ last' = [Exchange(route, h, Some(name), 0) EXCEPT !.arg = ref]
    /\ UNCHANGED <<pages, handlers, registry, history, cdpSessions>>
    /\ UNCHANGED serveVars /\ UNCHANGED fnVars /\ UNCHANGED actVars

NO_REFS == "No snapshot refs found. Call /snapshot first."
REF_NOT_FOUND == "Ref not found"
INTERNAL_ERROR == "internal error"

\* The function evaluateHandle runs in the page: what it throws, or "" when
\* it returns the element.
LookupRef(t, k) ==
    IF ~IsSome(t.table) THEN NO_REFS
    ELSE IF k \notin Val(t.table) THEN REF_NOT_FOUND
    ELSE ""

\* What asyncHandler answers for an error thrown in the handler.
AsyncHandlerStatus(error) == 500

\* page.evaluateHandle settles: with a handle on the element, after which the
\* handler awaits element.click() or element.fill(text), or by throwing, which
\* asyncHandler turns into its answer. ok is FALSE when the call fails for a
\* reason of the browser's.
EvaluateHandleSettles(i, ok) ==
    /\ reqs[i].pc = "evaluateHandle"
    /\ LET r == reqs[i]
           thrown == IF ~ok \/ pages[r.page] # "open" THEN INTERNAL_ERROR
                     ELSE LookupRef(refs[r.page], Val(r.arg))
       IN  IF thrown = ""
           THEN /\ jsHandles < MaxHandles
                /\ jsHandles' = jsHandles + 1
                /\ reqs' = Replace(reqs, i, [r EXCEPT !.pc = "act"])
                /\ last' = [NoExchange EXCEPT
                              !.effect = Effect("evaluateHandle", r.page, thrown)]
           ELSE /\ jsHandles' = jsHandles
                /\ reqs' = Remove(reqs, i)
                /\ last' = [Resumed(r, AsyncHandlerStatus(thrown)) EXCEPT
                              !.effect = Effect("evaluateHandle", r.page, thrown)]
    /\ UNCHANGED <<pages, handlers, registry, history, cdpSessions>>
    /\ UNCHANGED <<refs, popups>>
    /\ UNCHANGED serveVars /\ UNCHANGED fnVars

\* element.click() or element.fill(text) settles: the handler goes on to
\* handle.dispose(), or the error reaches asyncHandler with the handle still
\* held.
ActSettles(i, ok) ==
    /\ reqs[i].pc = "act"
    /\ IF ok
       THEN /\ pages[reqs[i].page] = "open"
            /\ reqs' = Replace(reqs, i, [reqs[i] EXCEPT !.pc = "dispose"])
            /\ last' = [NoExchange EXCEPT
                          !.effect = Effect(IF reqs[i].op = POST_CLICK_REF
                                            THEN "click" ELSE "fill",
                                            reqs[i].page, Val(reqs[i].arg))]
       ELSE /\ reqs' = Remove(reqs, i)
            /\ last' = Resumed(reqs[i], 500)
    /\ UNCHANGED <<pages, handlers, registry, history, cdpSessions>>
    /\ UNCHANGED serveVars /\ UNCHANGED fnVars /\ UNCHANGED actVars

\* handle.dispose() settles and the handler answers 200.
DisposeSettles(i) ==
    /\ reqs[i].pc = "dispose"
    /\ jsHandles' = jsHandles - 1
    /\ reqs' = Remove(reqs, i)
    /\ last' = Resumed(reqs[i], 200)
    /\ UNCHANGED <<pages, handlers, registry, history, cdpSessions>>
    /\ UNCHANGED <<refs, popups>>
    /\ UNCHANGED serveVars /\ UNCHANGED fnVars

----------------------------------------------------------------------------
(* Lockdown: screenshots *)

\* The character "\0"
NUL == "NUL"
sep == "/"
\* tmpDir: the artifact root, here /t.
tmpDir == <<"/", "t">>

RECURSIVE StripLeadingSlashes(_)
\* relativePath.replace(/^([/\\])+/, "")
StripLeadingSlashes(s) ==
    IF s # <<>> /\ Head(s) \in {"/", "\\"} THEN StripLeadingSlashes(Tail(s)) ELSE s

RECURSIVE NormalizeSegments(_, _)
\* path.posix's normalisation of an absolute path, segment by segment: empty
\* segments and "." are dropped, ".." removes the segment before it (none at
\* the root).
NormalizeSegments(segs, acc) ==
    IF segs = <<>> THEN acc
    ELSE IF Head(segs) = <<>> \/ Head(segs) = <<".">>
    THEN NormalizeSegments(Tail(segs), acc)
    ELSE IF Head(segs) = <<".", ".">>
    THEN NormalizeSegments(Tail(segs),
                           IF acc = <<>> THEN acc ELSE SubSeq(acc, 1, Len(acc) - 1))
    ELSE NormalizeSegments(Tail(segs), Append(acc, Head(segs)))

RECURSIVE JoinSegments(_)
JoinSegments(segs) ==
    IF segs = <<>> THEN <<>> ELSE <<sep>> \o Head(segs) \o JoinSegments(Tail(segs))

\* path.resolve(from, to) for an absolute from, on a POSIX system
resolve(from, to) ==
    LET segs == IF to # <<>> /\ Head(to) = sep THEN Split(to, sep)
                ELSE Split(from, sep) \o Split(to, sep)
        norm == NormalizeSegments(segs, <<>>)
    IN  IF norm = <<>> THEN <<sep>> ELSE JoinSegments(norm)

\* Variant: the prefix test is made without the separator.
resolveTmpPath_NoSep(relativePath) ==
    IF relativePath = <<>> THEN [ok |-> FALSE, abs |-> <<>>]
    ELSE IF \E i \in 1..Len(relativePath) : relativePath[i] = NUL
    THEN [ok |-> FALSE, abs |-> <<>>]
    ELSE LET clean == StripLeadingSlashes(relativePath)
             abs == resolve(tmpDir, clean)
             root == resolve(tmpDir, <<>>)
         IN  IF ~StartsWith(abs, root)
             THEN [ok |-> FALSE, abs |-> <<>>]
             ELSE [ok |-> TRUE, abs |-> abs]

\* resolveTmpPath: ok is FALSE when it throws.
resolveTmpPath(relativePath) ==
    IF relativePath = <<>> THEN [ok |-> FALSE, abs |-> <<>>]
    ELSE IF \E i \in 1..Len(relativePath) : relativePath[i] = NUL
    THEN [ok |-> FALSE, abs |-> <<>>]
    ELSE LET clean == StripLeadingSlashes(relativePath)
             abs == resolve(tmpDir, clean)
             root == resolve(tmpDir, <<>>) \o <<sep>>
         IN  IF ~StartsWith(abs \o <<sep>>, root)
             THEN [ok |-> FALSE, abs |-> <<>>]
             ELSE [ok |-> TRUE, abs |-> abs]

POST_SCREENSHOT == "POST /pages/:name/screenshot"

\* POST /pages/:name/screenshot up to its await of page.screenshot, called
\* with the resolved path (or its 404, its 400, or the 500 asyncHandler answers
\* when resolveTmpPath throws). path is None when the body's path is not a
\* string.
PostScreenshot(h, name, path) ==
    /\ Listening
    /\ Passes(h)
    /\ IF ~lockdown \/ ~Has(name)
       THEN /\ last' = [Exchange(POST_SCREENSHOT, h, Some(name), 404) EXCEPT !.arg = path]
            /\ UNCHANGED reqs
       ELSE IF ~IsSome(path) \/ Len(Val(path)) = 0 \/ Len(Val(path)) > 256
       THEN /\ last' = [Exchange(POST_SCREENSHOT, h, Some(name), 400) EXCEPT !.arg = path]
            /\ UNCHANGED reqs
       ELSE IF ~resolveTmpPath(Val(path)).ok
       THEN /\ last' = [Exchange(POST_SCREENSHOT, h, Some(name), 500) EXCEPT !.arg = path]
            /\ UNCHANGED reqs
       ELSE /\ CanSuspend
            /\ reqs' = Insert(reqs, SuspendedWith(POST_SCREENSHOT, name, "screenshot",
                                                  registry[name].page,
                                                  resolveTmpPath(Val(path)).abs))
            /\ last' = [Exchange(POST_SCREENSHOT, h, Some(name), 0) EXCEPT
                          !.arg = path,
                          !.effect = Effect("screenshot", registry[name].page,
                                            resolveTmpPath(Val(path)).abs)]
    /\ UNCHANGED <<pages, handlers, registry, history, cdpSessions>>
    /\ UNCHANGED serveVars /\ UNCHANGED fnVars /\ UNCHANGED actVars

\* page.screenshot settles: 200 with the resolved path, or 500 from
\* asyncHandler.
ScreenshotSettles(i, ok) ==
    /\ reqs[i].pc = "screenshot"
    /\ ok => pages[reqs[i].page] = "open"
    /\ reqs' = Remove(reqs, i)
    /\ last' = Resumed(reqs[i], IF ok THEN 200 ELSE 500)
    /\ UNCHANGED <<pages, handlers, registry, history, cdpSessions>>
    /\ UNCHANGED serveVars /\ UNCHANGED fnVars /\ UNCHANGED actVars

\* Variant: no popup observer is installed.
PopupOpens_NoObserver(p) ==
    /\ context = "open"
    /\ pages[p] = "open"
    /\ FreshPages # {}
    /\ pages' = [pages EXCEPT ![FreshPage] = "open"]
    /\ popups' = popups \cup {FreshPage}
    /\ last' = NoExchange
    /\ UNCHANGED <<handlers, registry, reqs, history, cdpSessions>>
    /\ UNCHANGED <<refs, jsHandles>>
    /\ UNCHANGED serveVars /\ UNCHANGED fnVars

\* An open page opens a popup. In lockdown the observer installed by
\* context.on("page") on every new page, popups included, calls popup.close().
PopupOpens(p) ==
    /\ context = "open"
    /\ pages[p] = "open"
    /\ FreshPages # {}
    /\ pages' = [pages EXCEPT ![FreshPage] = IF lockdown THEN "closing" ELSE "open"]
    /\ popups' = popups \cup {FreshPage}
    /\ last' = NoExchange
    /\ UNCHANGED <<handlers, registry, reqs, history, cdpSessions>>
    /\ UNCHANGED <<refs, jsHandles>>
    /\ UNCHANGED serveVars /\ UNCHANGED fnVars

----------------------------------------------------------------------------
(* Inputs *)

NoHeaders == [authorization |-> None, tokenHeader |-> None]
AuthorizationCases ==
    {None, Some(Bearer(TOKEN)), Some(Bearer(WRONG_TOKEN)), Some(BEARER_BARE),
     Some(BASIC_TOKEN)}
TokenHeaderCases == {None, Some(TOKEN), Some(WRONG_TOKEN)}
AllHeaders == [authorization : AuthorizationCases, tokenHeader : TokenHeaderCases]
Routes == {"GET /", "GET /pages", "POST /pages", "DELETE /pages/:name",
           "POST /pages/:name/press"}
NameInputs == {None, Some(LONG_NAME)} \cup {Some(n) : n \in Names}
KeyInputs == {None, Some(<<"E","n","t","e","r">>)}

\* A request reaches its route.
RequestNext(H) ==
    \/ \E h \in H : GetRoot(h)
    \/ \E h \in H : GetPages(h)
    \/ \E h \in H, name \in NameInputs : PostPages(h, name)
    \/ \E h \in H, name \in Names : DeletePage(h, name)
    \/ \E h \in H, name \in Names, key \in KeyInputs : PostPress(h, name, key)

PageNext ==
    \/ \E i \in Waiting : NewPageResolved(i)
    \/ \E i \in Waiting : NewPageTimeout(i)
    \/ \E p \in PageIds : AbandonedPageOpens(p)
    \/ \E p \in PageIds : PageClosed(p)
    \/ \E i \in Waiting : DeleteResumes(i)

CdpNext ==
    \/ \E i \in Waiting : CdpSessionOpened(i)
    \/ \E i \in Waiting : CdpSessionFails(i)
    \/ \E i \in Waiting, ok \in BOOLEAN : CdpSendSettles(i, ok)
    \/ \E i \in Waiting : CdpDetached(i)
    \/ \E i \in Waiting : CdpDetachFails(i)

LockdownNext ==
    \/ \E i \in Waiting, ok \in BOOLEAN : PressSettles(i, ok)

----------------------------------------------------------------------------
(* Specifications *)

NoFn == fnIn = <<>> /\ fnOut = None

\* The server in CDP mode without a token: the auth middleware is not
\* installed.
Init == InitState({BaseConfig}) /\ client = NoHeaders /\ NoFn
Next ==
    \/ ServeValidate
    \/ ContextLaunched
    \/ LaunchFails
    \/ FetchOk
    \/ FetchFail
    \/ RequestNext({NoHeaders})
    \/ PageNext
    \/ CdpNext
Spec == Init /\ [][Next]_vars

\* The server in lockdown, with a client that holds the token and one that
\* sends the headers of client.
ValidHeaders == [NoHeaders EXCEPT !.authorization = Some(Bearer(TOKEN))]
InitLockdown == InitState({LockdownConfig}) /\ client = NoHeaders /\ NoFn
NextLockdown ==
    \/ ServeValidate
    \/ ContextLaunched
    \/ LaunchFails
    \/ RouteInstalled
    \/ \E h \in {client, ValidHeaders}, route \in Routes : Unauthorized(route, h)
    \/ RequestNext({client, ValidHeaders})
    \/ PageNext
    \/ LockdownNext
SpecLockdown == InitLockdown /\ [][NextLockdown]_vars

\* The lockdown server with the pages of one name on the network: navigation
\* by goto, requests and popups of the pages.
NetUrls ==
    { [parses |-> TRUE, protocol |-> HTTPS, hostname |-> HOST_A],
      [parses |-> TRUE, protocol |-> HTTP, hostname |-> <<"b">>],
      [parses |-> TRUE, protocol |-> FTP, hostname |-> HOST_A],
      [parses |-> TRUE, protocol |-> DATA, hostname |-> <<>>],
      [parses |-> FALSE, protocol |-> <<>>, hostname |-> <<>>] }
UrlInputs == {None} \cup {Some(u) : u \in NetUrls}
NextNet ==
    \/ ServeValidate
    \/ ContextLaunched
    \/ LaunchFails
    \/ RouteInstalled
    \/ PostPages(ValidHeaders, Some("x"))
    \/ \E i \in Waiting : NewPageResolved(i)
    \/ \E p \in PageIds : PageClosed(p)
    \/ \E url \in UrlInputs : PostGoto(ValidHeaders, "x", url)
    \/ \E i \in Waiting, ok \in BOOLEAN : GotoSettles(i, ok)
    \/ \E i \in Waiting, ok \in BOOLEAN : TitleSettles(i, ok)
    \/ \E p \in PageIds, url \in NetUrls : url.parses /\ PageRequest(p, url)
    \/ \E p \in PageIds : PopupOpens(p)
SpecNet == InitLockdown /\ [][NextNet]_vars

\* The lockdown server with pages that open popups and issue requests; a
\* page on which close() was called closes in the end.
NextPopups ==
    \/ ServeValidate
    \/ ContextLaunched
    \/ LaunchFails
    \/ RouteInstalled
    \/ \E name \in Names : PostPages(ValidHeaders, Some(name))
    \/ \E i \in Waiting : NewPageResolved(i)
    \/ \E p \in PageIds : PageClosed(p)
    \/ \E name \in Names : DeletePage(ValidHeaders, name)
    \/ \E i \in Waiting : DeleteResumes(i)
    \/ \E p \in PageIds, url \in NetUrls : url.parses /\ PageRequest(p, url)
    \/ \E p \in PageIds : PopupOpens(p)
SpecPopups ==
    /\ InitLockdown
    /\ [][NextPopups]_vars
    /\ \A p \in PageIds : WF_vars(pages[p] = "closing" /\ PageClosed(p))

\* The lockdown server with snapshots and actions by reference on the pages
\* of one name. e3 is a well-formed reference no snapshot mints.
RefInputs == {None} \cup {Some(k) : k \in 1..(MaxMinted + 1)}
NextActions ==
    \/ ServeValidate
    \/ ContextLaunched
    \/ LaunchFails
    \/ RouteInstalled
    \/ PostPages(ValidHeaders, Some("x"))
    \/ \E i \in Waiting : NewPageResolved(i)
    \/ \E p \in PageIds : PageClosed(p)
    \/ PostSnapshot(ValidHeaders, "x")
    \/ \E i \in Waiting, ok \in BOOLEAN : SnapshotSettles(i, ok)
    \/ \E route \in RefRoutes, ref \in RefInputs, textOk \in BOOLEAN :
          PostRef(route, ValidHeaders, "x", ref, textOk)
    \/ \E i \in Waiting, ok \in BOOLEAN : EvaluateHandleSettles(i, ok)
    \/ \E i \in Waiting, ok \in BOOLEAN : ActSettles(i, ok)
    \/ \E i \in Waiting : DisposeSettles(i)
SpecActions == InitLockdown /\ [][NextActions]_vars

\* The lockdown server taking screenshots of the pages of one name; every
\* request of a behaviour names the path drawn at the start, no path, the
\* empty path or a path of 257 characters.
MaxPathLen == 3
PathAlphabet == {"t", ".", "/"}
RECURSIVE PathsOfLen(_)
PathsOfLen(n) ==
    IF n = 0 THEN {<<>>}
    ELSE {Append(t, c) : t \in PathsOfLen(n - 1), c \in PathAlphabet}
ETC_PASSWD == <<".", ".", "/", ".", ".", "/", "e", "t", "c", "/", "p", "a", "s", "s", "w", "d">>
SHOTS_A_PNG == <<"s", "h", "o", "t", "s", "/", "a", ".", "p", "n", "g">>
SIBLING == <<".", ".", "/", "t", "t">>
BACKSLASHES == <<"\\", "/", ".", ".", "/", "t">>
NUL_INSIDE == <<"t", NUL, "/", ".", ".", "/", ".", ".">>
NUL_ALONE == <<NUL>>
LONG_PATH == [i \in 1..257 |-> "t"]
Paths ==
    UNION {PathsOfLen(n) : n \in 1..MaxPathLen}
        \cup {ETC_PASSWD, SHOTS_A_PNG, SIBLING, BACKSLASHES, NUL_INSIDE, NUL_ALONE}
InitShot == InitState({LockdownConfig}) /\ client = NoHeaders /\ fnIn \in Paths /\ fnOut = None
NextShot ==
    \/ ServeValidate
    \/ ContextLaunched
    \/ LaunchFails
    \/ RouteInstalled
    \/ PostPages(ValidHeaders, Some("x"))
    \/ \E i \in Waiting : NewPageResolved(i)
    \/ \E p \in PageIds : PageClosed(p)
    \/ \E path \in {None, Some(<<>>), Some(LONG_PATH), Some(fnIn)} :
          PostScreenshot(ValidHeaders, "x", path)
    \/ \E i \in Waiting, ok \in BOOLEAN : ScreenshotSettles(i, ok)
SpecShot == InitShot /\ [][NextShot]_vars

\* The server from start to stop, in CDP mode and in lockdown, creating pages
\* for two names; nothing happens in a process that has exited.
LifeConfigs == {BaseConfig, LockdownConfig}
InitLife == InitState(LifeConfigs) /\ client = NoHeaders /\ NoFn
NextLife ==
    \/ ServeValidate
    \/ ContextLaunched
    \/ LaunchFails
    \/ FetchOk
    \/ FetchFail
    \/ RouteInstalled
    \/ \E name \in Names : Alive /\ PostPages(ValidHeaders, Some(name))
    \/ \E i \in Waiting : Alive /\ NewPageResolved(i)
    \/ \E i \in Waiting : Alive /\ NewPageTimeout(i)
    \/ \E i \in Waiting : Alive /\ NewPageRejected(i)
    \/ \E p \in PageIds : Alive /\ AbandonedPageOpens(p)
    \/ \E p \in PageIds : Alive /\ PageClosed(p)
    \/ Alive /\ CdpNext
    \/ \E trigger \in {SIGNAL, FAULT, STOP} : CleanupBegins(trigger)
    \/ \E ok \in BOOLEAN : CleanupPageSettles(ok)
    \/ \E ok \in BOOLEAN : CleanupContextSettles(ok)
    \/ \E trigger \in {SIGNAL, FAULT} : ExitDuringCleanup(trigger)
    \/ StopDuringCleanup
SpecLife == InitLife /\ [][NextLife]_vars

\* serve() up to app.listen under every configuration.
InitServe == InitState(AllConfigs) /\ client = NoHeaders /\ NoFn
SpecServe == InitServe /\ [][ServeNext]_vars

\* The lockdown server with a client under test, which sends any combination
\* of the two headers, with a body the JSON parser accepts or not.
InitAuth == InitState({LockdownConfig}) /\ client \in AllHeaders /\ NoFn
NextAuth ==
    \/ NextLockdown
    \/ \E h \in {client, ValidHeaders}, route \in Routes : BodyParseFails(route, h)
SpecAuth == InitAuth /\ [][NextAuth]_vars

\* The allowlist matcher on every hostname up to MaxHostLen characters.
MaxHostLen == 5
HostAlphabet == {"a", "b", "."}
RECURSIVE StringsOfLen(_)
StringsOfLen(n) ==
    IF n = 0 THEN {<<>>}
    ELSE {Append(t, c) : t \in StringsOfLen(n - 1), c \in HostAlphabet}
Hostnames == UNION {StringsOfLen(n) : n \in 1..MaxHostLen}
Protocols == {HTTP, HTTPS, DATA, BLOB, FTP}
Urls ==
    [parses : {TRUE}, protocol : Protocols, hostname : Hostnames]
      \cup {[parses |-> FALSE, protocol |-> <<>>, hostname |-> <<>>]}
WILD_AB == <<"*",".","a",".","b">>
WILD_UPPER_B == <<"*",".","B">>
WILD_EMPTY == <<"*",".">>
STAR == <<"*">>
HOST_UPPER_A == <<"A", ".", "B">>
AllowLists ==
    { <<WILD_B>>, <<WILD_AB>>, <<WILD_UPPER_B>>, <<WILD_EMPTY>>, <<STAR>>,
      <<HOST_A>>, <<<<"b">>>>, <<<<"b">>, WILD_B>>, <<WILD_AB, <<>>, HOST_A>>,
      <<HOST_UPPER_A>> }
MatchConfigs == {[LockdownConfig EXCEPT !.allowedHosts = Some(l)] : l \in AllowLists}
InitMatch ==
    /\ InitState(MatchConfigs)
    /\ client = NoHeaders
    /\ fnIn \in Urls
    /\ fnOut = None
SpecMatch == InitMatch /\ [][ApplyMatcher]_vars

----------------------------------------------------------------------------
(* Properties *)

Started == phase \in {"launching", "fetching", "routing", "listening"}

\* C8: serve() started with authentication required but no secret, or in
\* lockdown without authentication required, throws before it launches the
\* browser: it is never past validation, and so never listening.
C8_AuthPreconditions ==
    ((requireAuth /\ ~Truthy(authToken)) \/ (lockdown /\ ~requireAuth))
        => (~Started /\ context = "none")

\* serve() has thrown one of the two errors of C8.
C8_Witness ==
    /\ phase = "failed"
    /\ context = "none"
    /\ ValidateOptions \in {"auth required but no token", "lockdown requires auth"}

AllBlank(a) == \A i \in 1..Len(a) : a[i] = <<>>

Labels(h) == Split(h, ".")

\* h lies strictly below x: it is x with one or more labels in front.
StrictSubdomain(h, x) ==
    /\ Len(Labels(h)) > Len(Labels(x))
    /\ SubSeq(Labels(h), Len(Labels(h)) - Len(Labels(x)) + 1, Len(Labels(h)))
         = Labels(x)

IsWildcard(e) == Len(e) >= 2 /\ e[1] = "*" /\ e[2] = "."

\* C10: on an http(s) url, an entry "*.X" of the allowlist accepts a hostname
\* exactly when the hostname is a strict subdomain of X at any depth, names
\* compared without regard to case: not X itself, not a name that only ends
\* in the letters of X.
C10_WildcardStrictSubdomain ==
    (IsSome(fnOut) /\ fnIn.parses)
        => \A i \in 1..Len(allowedHosts) :
              IsWildcard(allowedHosts[i])
                  => (Val(fnOut).by[i]
                        <=> StrictSubdomain(ToLowerCase(fnIn.hostname),
                                            ToLowerCase(SubSeq(allowedHosts[i], 3,
                                                               Len(allowedHosts[i])))))

\* "*.b" has accepted a.a.b, two labels below b.
C10_Witness ==
    /\ IsSome(fnOut)
    /\ allowedHosts = <<WILD_B>>
    /\ fnIn.protocol = HTTPS
    /\ fnIn.hostname = <<"a", ".", "a", ".", "b">>
    /\ Val(fnOut).by[1]
    /\ Val(fnOut).allowed

\* C6: in lockdown the server holds no debugging endpoint, and no answer it
\* sends carries one or a target id.
C6_LockdownHandsOutNothing ==
    lockdown => /\ wsEndpoint = None
                /\ last.wsEndpoint = None
                /\ last.targetId = None

\* In lockdown a page has been created and POST /pages has answered 200.
C6_Witness ==
    /\ lockdown
    /\ last.route = "POST /pages"
    /\ last.status = 200
    /\ last.name = Some("x")
    /\ Has("x")

POST_PAGES == "POST /pages"
DELETE_PAGE == "DELETE /pages/:name"
POST_PRESS == "POST /pages/:name/press"

\* e is the exchange of a request on its arrival: the answer, or status 0
\* while its handler is suspended.
Arrival(e, route) == e.route = route /\ IsSome(e.headers)
ArrivalFor(e, route, n) == Arrival(e, route) /\ e.name = Some(n)

\* e is the answer a suspended handler gave on resuming.
Completed(e, route, n, status) ==
    e.route = route /\ e.headers = None /\ e.name = Some(n) /\ e.status = status

\* Page q was registered under n and removed by a DELETE that answered 200.
Deleted(q, n) ==
    IsSome(history[q]) /\ Val(history[q]).name = n /\ Val(history[q]).deleted

\* C1 (as stated): two POST /pages for one name in flight at once share one
\* page creation.
C1_OneCreationPerName ==
    \A i, j \in Waiting :
        (i # j /\ reqs[i].op = POST_PAGES /\ reqs[j].op = POST_PAGES
              /\ reqs[i].name = reqs[j].name)
            => reqs[i].page = reqs[j].page

\* C2: POST /pages for a name that is registered answers 200 at once with the
\* target id answered when the session was registered, and creates no page:
\* pages, registry, observers and suspended handlers are as before.
C2_GetOrCreateIdempotent ==
    [][\A n \in Names :
          (n \in DOMAIN registry /\ ArrivalFor(last', POST_PAGES, n))
            => /\ last'.status = 200
               /\ last'.targetId = Val(history[registry[n].page]).targetId
               /\ UNCHANGED <<pages, registry, handlers, reqs>>]_vars

\* Outside lockdown, POST /pages has answered a registered name with a target id.
C2_Witness ==
    /\ ~lockdown
    /\ ArrivalFor(last, POST_PAGES, "x")
    /\ last.status = 200
    /\ IsSome(last.targetId)
    /\ Has("x")

\* C3: a DELETE that answers 200 leaves its name unregistered; POST /pages for
\* an unregistered name starts the creation of a page; and when it answers 200
\* the name is registered to a page that was never registered before.
C3_NamesReusable ==
    [][\A n \in Names :
          /\ Completed(last', DELETE_PAGE, n, 200) => n \notin DOMAIN registry'
          /\ (n \notin DOMAIN registry /\ ArrivalFor(last', POST_PAGES, n))
               => /\ last'.status = 0
                  /\ \E q \in PageIds :
                        /\ pages[q] = "none"
                        /\ pages'[q] = "creating"
                        /\ \E i \in 1..Len(reqs') :
                              /\ reqs'[i].op = POST_PAGES
                              /\ reqs'[i].name = n
                              /\ reqs'[i].page = q
          /\ Completed(last', POST_PAGES, n, 200)
               => /\ n \in DOMAIN registry'
                  /\ history[registry'[n].page] = None]_vars

\* POST /pages has answered 200 for "x" with a page other than the one a
\* DELETE removed from "x" before.
C3_Witness ==
    /\ Completed(last, POST_PAGES, "x", 200)
    /\ Has("x")
    /\ \E q \in PageIds : Deleted(q, "x") /\ registry["x"].page # q

\* C4: DELETE of an unregistered name answers 404 and changes nothing; DELETE
\* of a registered name calls close() on that session's page, and when it
\* answers 200 the page is closed and the name unregistered.
C4_DeleteSemantics ==
    [][\A n \in Names :
          /\ (n \notin DOMAIN registry /\ ArrivalFor(last', DELETE_PAGE, n))
               => /\ last'.status = 404
                  /\ UNCHANGED <<pages, registry, handlers, reqs>>
          /\ (n \in DOMAIN registry /\ ArrivalFor(last', DELETE_PAGE, n))
               => /\ last'.status = 0
                  /\ pages'[registry[n].page] \in {"closing", "closed"}
                  /\ \E i \in 1..Len(reqs') :
                        /\ reqs'[i].op = DELETE_PAGE
                        /\ reqs'[i].name = n
                        /\ reqs'[i].page = registry[n].page
          /\ Completed(last', DELETE_PAGE, n, 200)
               => /\ n \notin DOMAIN registry'
                  /\ \E i \in Waiting :
                        /\ reqs[i].op = DELETE_PAGE
                        /\ reqs[i].name = n
                        /\ reqs' = Remove(reqs, i)
                        /\ pages'[reqs[i].page] = "closed"]_vars

\* DELETE of "x" has answered 404 after an earlier DELETE of "x" answered 200.
C4_Witness ==
    /\ ArrivalFor(last, DELETE_PAGE, "x")
    /\ last.status = 404
    /\ \E q \in PageIds : Deleted(q, "x")

BearerOf(h) == {t \in {TOKEN, WRONG_TOKEN} : h.authorization = Some(Bearer(t))}

CarriesSecretInEitherHeader(h) ==
    h.authorization = Some(Bearer(TOKEN)) \/ h.tokenHeader = Some(TOKEN)

\* The credential of a request is its bearer when it has one, else its token
\* header.
SecretIsCredential(h) ==
    IF BearerOf(h) # {} THEN TOKEN \in BearerOf(h) ELSE h.tokenHeader = Some(TOKEN)

\* The outcome of the middleware on the request of this step: let through
\* to its handler, or answered 401 with nothing changed.
Gate(accepted) ==
    IF accepted
    THEN last'.status # 401
    ELSE /\ last'.status = 401
         /\ UNCHANGED <<pages, handlers, registry, reqs, history, cdpSessions>>

Covers(e, h) ==
    IF IsWildcard(e)
    THEN StrictSubdomain(ToLowerCase(h), ToLowerCase(SubSeq(e, 3, Len(e))))
    ELSE ToLowerCase(h) = ToLowerCase(e)

\* C11: the matcher rejects a url that does not parse, accepts every data:
\* and blob: url, rejects every other scheme but http and https, and accepts
\* an http(s) url exactly when an entry of the allowlist covers its hostname.
C11_MatcherVerdict ==
    IsSome(fnOut)
        => (Val(fnOut).allowed
              <=> /\ fnIn.parses
                  /\ \/ fnIn.protocol \in {DATA, BLOB}
                     \/ /\ fnIn.protocol \in {HTTP, HTTPS}
                        /\ \E i \in 1..Len(allowedHosts) :
                              Covers(allowedHosts[i], fnIn.hostname))

\* An ftp url whose hostname is on the allowlist has been rejected.
C11_Witness ==
    /\ IsSome(fnOut)
    /\ fnIn.parses
    /\ fnIn.protocol = FTP
    /\ allowedHosts = <<HOST_A>>
    /\ fnIn.hostname = HOST_A
    /\ ~Val(fnOut).allowed

POST_GOTO == "POST /pages/:name/goto"

\* The allowlist permits url u.
Permitted(u) ==
    /\ u.parses
    /\ \/ u.protocol \in {DATA, BLOB}
       \/ /\ u.protocol \in {HTTP, HTTPS}
          /\ \E i \in 1..Len(allowedHosts) : Covers(allowedHosts[i], u.hostname)

\* C12: in lockdown a goto of a registered name with a url the allowlist does
\* not permit is answered 403 without the handler suspending, and page.goto
\* is only ever called with a permitted url.
C12_GotoForbidden ==
    [][/\ \A n \in Names :
             (/\ lockdown
              /\ n \in DOMAIN registry
              /\ ArrivalFor(last', POST_GOTO, n)
              /\ IsSome(last'.arg)
              /\ ~Permitted(Val(last'.arg)))
               => /\ last'.status = 403
                  /\ last'.effect = None
                  /\ reqs' = reqs
       /\ (IsSome(last'.effect) /\ Val(last'.effect).kind = "goto")
            => Permitted(Val(last'.effect).arg)]_vars

\* A goto of "x" to the bare parent of a wildcard entry has been answered 403.
C12_Witness ==
    /\ lockdown
    /\ Has("x")
    /\ ArrivalFor(last, POST_GOTO, "x")
    /\ last.status = 403
    /\ last.arg = Some([parses |-> TRUE, protocol |-> HTTP, hostname |-> <<"b">>])

\* C13: in lockdown the request gate is installed whenever the server is
\* listening, and a request of any page is continued when the allowlist
\* permits its url and aborted otherwise; none goes to the network ungated.
C13_RequestGate ==
    [][/\ (lockdown /\ Listening') => routeGate'
       /\ (lockdown /\ IsSome(last'.effect)
                    /\ Val(last'.effect).kind \in {"continue", "abort", "network"})
            => Val(last'.effect).kind
                 = IF Permitted(Val(last'.effect).arg) THEN "continue" ELSE "abort"]_vars

\* A popup has had a request to a host outside the allowlist aborted.
C13_Witness ==
    /\ lockdown
    /\ IsSome(last.effect)
    /\ Val(last.effect).kind = "abort"
    /\ Val(last.effect).page \in popups
    /\ Val(last.effect).arg.hostname = <<"b">>

\* C18: in lockdown a popup is never registered under a name nor answered to
\* a caller, and every popup is closed in the end.
C18_PopupsClosed ==
    /\ [](lockdown => \A q \in popups :
                         /\ history[q] = None
                         /\ \A n \in DOMAIN registry : registry[n].page # q)
    /\ \A q \in PageIds : (lockdown /\ q \in popups) ~> (pages[q] = "closed")

\* The popup of a registered page has been closed.
C18_Witness ==
    /\ lockdown
    /\ \E q \in popups : pages[q] = "closed"
    /\ \E n \in DOMAIN registry : pages[registry[n].page] = "open"

\* The step settled the reference lookup of a click-ref or fill-ref of page p
\* with outcome o.
LookedUp(e, o) ==
    /\ IsSome(e.effect)
    /\ Val(e.effect).kind = "evaluateHandle"
    /\ Val(e.effect).arg = o

\* C14 (as stated): a reference a snapshot of the page minted, looked up after
\* a later snapshot has replaced the table, is rejected with NotFound (404).
C14_StaleRefNotFound ==
    [][\A q \in PageIds :
          (/\ IsSome(last'.effect)
           /\ Val(last'.effect).kind = "evaluateHandle"
           /\ Val(last'.effect).page = q
           /\ pages[q] = "open"
           /\ IsSome(refs[q].table)
           /\ IsSome(last'.arg)
           /\ Val(last'.arg) <= refs[q].minted
           /\ Val(last'.arg) \notin Val(refs[q].table))
            => last'.status = 404]_vars

\* C15 (as stated): a well-formed reference absent from the page's current
\* table is answered NotFound (404), and nothing is clicked or filled.
C15_AbsentRefNotFound ==
    [][LookedUp(last', REF_NOT_FOUND)
         => /\ last'.status = 404
            /\ Len(reqs') < Len(reqs)]_vars

\* C16 (as stated): a click-ref or fill-ref on a page without a reference
\* table is answered with an outcome that is neither NotFound (404) nor
\* Internal (500), and nothing is clicked or filled.
C16_NoTablePrecondition ==
    [][LookedUp(last', NO_REFS)
         => /\ last'.status \notin {404, 500}
            /\ Len(reqs') < Len(reqs)]_vars

\* The segments of an absolute path, empty ones left out.
SegmentsOf(path) == FilterBoolean(Split(path, sep))
\* Path abs is the artifact root or lies below it.
InsideRoot(abs) ==
    LET r == SegmentsOf(tmpDir)
        a == SegmentsOf(abs)
    IN  /\ Len(a) >= Len(r)
        /\ \A i \in 1..Len(r) : a[i] = r[i]
        /\ \A i \in 1..Len(a) : a[i] \notin {<<".">>, <<".", ".">>}
HasNul(path) == \E i \in 1..Len(path) : path[i] = NUL

\* C17: every path handed to page.screenshot, and every path a 200 answer
\* returns, lies inside the artifact root; a request whose path holds a null
\* byte or resolves outside the root is answered with an error before
\* page.screenshot is called; shots/a.png resolves to <root>/shots/a.png.
C17_ScreenshotConfined ==
    [][/\ (IsSome(last'.effect) /\ Val(last'.effect).kind = "screenshot")
            => /\ InsideRoot(Val(last'.effect).arg)
               /\ Head(Val(last'.effect).arg) = sep
       /\ \A n \in Names :
            Completed(last', POST_SCREENSHOT, n, 200)
              => \E i \in Waiting :
                    /\ reqs[i].pc = "screenshot"
                    /\ last'.arg = reqs[i].arg
                    /\ InsideRoot(Val(last'.arg))
       /\ \A n \in Names :
            (/\ ArrivalFor(last', POST_SCREENSHOT, n)
             /\ IsSome(last'.arg)
             /\ \/ HasNul(Val(last'.arg))
                \/ /\ Len(Val(last'.arg)) <= 256
                   /\ ~InsideRoot(resolve(tmpDir, StripLeadingSlashes(Val(last'.arg)))))
              => /\ last'.status >= 400
                 /\ last'.effect = None
                 /\ reqs' = reqs
       /\ \A n \in Names :
            (/\ ArrivalFor(last', POST_SCREENSHOT, n)
             /\ n \in DOMAIN registry
             /\ last'.arg = Some(SHOTS_A_PNG)
             /\ last'.status = 0)
              => Val(last'.effect).arg = tmpDir \o <<sep>> \o SHOTS_A_PNG]_vars

\* A screenshot to ../../etc/passwd of a registered page has been refused.
C17_Witness ==
    /\ ArrivalFor(last, POST_SCREENSHOT, "x")
    /\ Has("x")
    /\ last.arg = Some(ETC_PASSWD)
    /\ last.status = 500
    /\ last.effect = None

\* The step is the timeout of the page creation suspended handler i awaits.
TimedOut(i) ==
    /\ reqs[i].pc = "newPage"
    /\ last' = [Resumed(reqs[i], 500) EXCEPT
                  !.effect = Effect("timeout", reqs[i].page, None)]

\* C19: the timeout of a page creation ends that request alone with an error:
\* the registry, the other suspended handlers, the server's phase and the
\* process are as before, and a listening server with a free slot accepts a
\* POST /pages for either name, the timed-out one included.
C19_TimeoutFailsOneRequest ==
    /\ [][\A i \in Waiting :
             TimedOut(i)
               => /\ registry' = registry
                  /\ reqs' = Remove(reqs, i)
                  /\ pages' = pages
                  /\ phase' = phase
                  /\ proc' = proc
                  /\ context' = context]_vars
    /\ [](\A n \in Names :
             (phase = "listening" /\ Alive /\ CanSuspend /\ FreshPages # {})
               => ENABLED PostPages(ValidHeaders, Some(n)))

\* After a creation for "x" timed out and left its page behind, "x" has been
\* created again and registered, and the server is listening.
C19_Witness ==
    /\ phase = "listening"
    /\ Alive
    /\ Has("x")
    /\ pages[registry["x"].page] = "open"
    /\ \E q \in PageIds :
          /\ pages[q] \in {"creating", "open"}
          /\ history[q] = None
          /\ \A i \in Waiting : reqs[i].page # q

\* The state of the server's lifecycle.
Lifecycle ==
    CASE phase = "unstarted" -> "Unstarted"
      [] phase \in {"launching", "fetching", "routing"} -> "Launching"
      [] phase = "listening" -> "Listening"
      [] phase = "shuttingDown" -> "ShuttingDown"
      [] phase = "stopped" -> "Stopped"
      [] OTHER -> "Failed"

\* C20: every change of the lifecycle's state goes to the next state of
\* Unstarted, Launching, Listening, ShuttingDown, Stopped, or, before
\* Listening, to the failure of the start, which nothing follows; Listening is
\* entered with the context launched and, outside lockdown, the endpoint found.
C20_LifecycleForward ==
    [][/\ Lifecycle' # Lifecycle
          => \/ Lifecycle = "Unstarted" /\ Lifecycle' \in {"Launching", "Failed"}
             \/ Lifecycle = "Launching" /\ Lifecycle' \in {"Listening", "Failed"}
             \/ Lifecycle = "Listening" /\ Lifecycle' = "ShuttingDown"
             \/ Lifecycle = "ShuttingDown" /\ Lifecycle' = "Stopped"
       /\ (Lifecycle # "Listening" /\ Lifecycle' = "Listening")
          => /\ context' = "open"
             /\ ~lockdown => IsSome(wsEndpoint')]_vars

\* A server in CDP mode has been started, has listened and has been stopped by
\* a signal, its process exiting with code 0.
C20_Witness ==
    /\ Lifecycle = "Stopped"
    /\ ~lockdown
    /\ IsSome(wsEndpoint)
    /\ context = "closed"
    /\ proc.exited = Some(0)

\* C21 (as stated): while a shutdown is in flight a further trigger is a
\* no-op: a step that is not a step of cleanup() itself leaves the phase, the
\* context and the process's life as they are.
C21_SecondTriggerNoOp ==
    [][(phase = "shuttingDown" /\ proc'.pc = proc.pc)
         => /\ phase' = phase
            /\ context' = context
            /\ proc'.exited = proc.exited]_vars

\* C22 (as stated): once shutdown has begun no request of a new connection
\* reaches a route.
C22_NoRequestAfterShutdownBegan ==
    [][proc.cleaningUp => ~IsSome(last'.headers)]_vars

\* C23 (as stated): the process exits only when cleanup() has run to its end:
\* the loop over the pages finished, the awaited context.close() settled and
\* server.close() called.
C23_ExitAfterFullCleanup ==
    [][(proc.exited = None /\ proc'.exited # None)
         => /\ proc'.pc = "done"
            /\ phase = "shuttingDown"
            /\ proc.pc = "context"]_vars

\* cleanup() has run to its end.
CleanupDone == proc.pc = "done"

C25_BestEffortSteps ==
    [][/\ (proc.pc = "page" /\ proc'.pc # "page" /\ proc'.exited = None)
          => /\ proc'.pc = "context"
             /\ registry' = <<>>
             /\ context' # "open"
             /\ \A n \in DOMAIN registry : registry[n].page \in proc.visited
       /\ (proc.pc = "page" /\ proc'.pc = "page" /\ proc'.page # proc.page)
          => /\ Val(proc'.page) \notin proc.visited
             /\ pages'[Val(proc'.page)] \in {"closing", "closed"}
       /\ (proc.pc # "done" /\ proc'.pc = "done")
          => /\ proc.pc = "context"
             /\ phase' = "stopped"]_vars

\* cleanup() has ended with the listener stopped although a registered page's
\* close() and context.close() both failed.
C25_Witness ==
    /\ CleanupDone
    /\ phase = "stopped"
    /\ context = "closing"
    /\ \E p \in proc.atBegin : pages[p] = "closing"

\* C26: the element handle of a click-ref or fill-ref request is released on
\* every outcome: the handles held are those of the requests still between
\* evaluateHandle and dispose, and a request that has been answered holds none.
C26_HandleReleased ==
    jsHandles = Cardinality({i \in 1..Len(reqs) : reqs[i].pc \in {"act", "dispose"}})

\* The requests suspended in getTargetId at the given await.
AtCdp(pc) == {i \in 1..Len(reqs) : reqs[i].pc = pc}

\* C27: a request that has opened a sub-session leaves getTargetId only
\* through cdpSession.detach(), whether Target.getTargetInfo answered or
\* failed, and a detach that resolves releases one sub-session; in lockdown
\* mode no sub-session is ever opened.
C27_SubSessionDetached ==
    /\ [][/\ Cardinality(AtCdp("send")') < Cardinality(AtCdp("send"))
             => Cardinality(AtCdp("detach")') = Cardinality(AtCdp("detach")) + 1
          /\ Cardinality(AtCdp("detach")') < Cardinality(AtCdp("detach"))
             => \/ cdpSessions' = cdpSessions - 1
                \/ cdpSessions' = cdpSessions /\ last'.status = 500
          /\ cdpSessions' > cdpSessions
             => Cardinality(AtCdp("send")') = Cardinality(AtCdp("send")) + 1]_vars
    /\ [](lockdown => /\ cdpSessions = 0
                      /\ AtCdp("newCDPSession") \cup AtCdp("send") \cup AtCdp("detach") = {})

\* Target.getTargetInfo has failed and the request is in cdpSession.detach().
C27_Witness ==
    \E i \in AtCdp("detach") : reqs[i].failed /\ cdpSessions > 0

\* C28: outside lockdown the startup fetch makes at most maxRetries attempts:
\* the attempt in progress is one of the first maxRetries, a failed attempt
\* is followed by the next one or, when it was the last, by the failure of
\* startup, and the first attempt that succeeds ends the fetch with the
\* endpoint stored; in lockdown no attempt is made.
C28_BoundedAttempts ==
    /\ [](phase = "fetching" => ~lockdown /\ fetchI < maxRetries
                                /\ Len(proc.slept) = fetchI)
    /\ [][phase = "fetching"
            => /\ phase' = "fetching" => fetchI' = fetchI + 1
               /\ phase' = "failed" => fetchI = maxRetries - 1
               /\ fetchI = maxRetries - 1 => phase' \in {"failed", "listening"}
               /\ phase' = "listening" => IsSome(wsEndpoint')
               /\ phase' \in {"fetching", "failed", "listening"}]_vars

\* Every attempt has failed and startup has been aborted.
C28_Witness ==
    /\ phase = "failed"
    /\ ~lockdown
    /\ Len(proc.slept) = maxRetries - 1

\* C29: the delays between the attempts of the startup fetch are an
\* exponential backoff: each delay is the same multiple, greater than one, of
\* the delay before it.
C29_ExponentialBackoff ==
    \A j \in 2..Len(proc.slept) :
        /\ proc.slept[j] > proc.slept[j - 1]
        /\ j > 2 => proc.slept[j] * proc.slept[j - 2]
                      = proc.slept[j - 1] * proc.slept[j - 1]

\* C30: outside shutdown a name leaves the registry only when the page of
\* its entry has closed: no step removes the entry of a page that is still
\* open.
C30_RemovedOnlyWhenClosed ==
    [][\A n \in DOMAIN registry :
          n \notin DOMAIN registry' => pages'[registry[n].page] = "closed"]_vars

\* C31: a get-or-create request leaves no orphan page: a request that ends
\* in failure after its page was created does not leave that page open, and
\* a page finishes its creation only for a request that still waits for it.
C31_NoOrphanPage ==
    [][/\ \A i \in Waiting :
             (/\ reqs[i].op = POST_PAGES
              /\ reqs' = Remove(reqs, i)
              /\ last'.status = 500)
             => pages'[reqs[i].page] # "open"
       /\ \A p \in DOMAIN pages :
             (pages[p] = "creating" /\ pages'[p] = "open")
             => \E i \in Waiting : reqs[i].pc = "newPage" /\ reqs[i].page = p]_vars

\* C32: every name in the registry maps to a page that has not closed, so
\* GET /pages never lists a dead session.
C32_NoDeadSession ==
    \A n \in DOMAIN registry : pages[registry[n].page] # "closed"

\* C33: when startup has failed the browser context is not left open: a
\* failure after the launch closes the context before serve() reports it.
C33_FailedStartupClosesContext ==
    phase = "failed" => context # "open"

\* C34: once shutdown has begun no session is registered any more: no step
\* taken while cleanup() runs or after it adds a name to the registry, and
\* when cleanup() has ended the registry is empty.
C34_NoRegistrationDuringShutdown ==
    /\ [][proc.cleaningUp => DOMAIN registry' \subseteq DOMAIN registry]_vars
    /\ [](CleanupDone => registry = <<>>)

====
